---------------------------- MODULE Spec2Model ----------------------------
(***************************************************************************)
(* A model of the read-only query gateway of mysql-readonly-mcp: the       *)
(* query validator (validate / isReadOnly), and the ConnectionManager      *)
(* (initialize, executeQuery, executeWithLimit, addLimitToQuery, close)    *)
(* of src/src/connection-manager.ts, run against a model of the MySQL      *)
(* engine behind pool.execute.                                             *)
(*                                                                         *)
(* A text is a sequence of one-character strings, so that trimming,        *)
(* comment stripping, case folding and the regular expressions of the      *)
(* code are computed character by character.                               *)
(***************************************************************************)
EXTENDS Integers, Sequences, FiniteSets, TLC

(***************************************************************************)
(* Bounds of the model.                                                    *)
(***************************************************************************)
\* the longest free text, in lexical pieces, handed to validate
MaxPieces == 4
\* the most rows the queried table holds (besides the 150-row scenario)
MaxRows == 3
\* the largest small limit a caller passes (besides the scenario's 100)
MaxLimit == 3

(***************************************************************************)
(* Characters.                                                             *)
(***************************************************************************)
LowerLetters ==
    <<"a","b","c","d","e","f","g","h","i","j","k","l","m",
      "n","o","p","q","r","s","t","u","v","w","x","y","z">>
UpperLetters ==
    <<"A","B","C","D","E","F","G","H","I","J","K","L","M",
      "N","O","P","Q","R","S","T","U","V","W","X","Y","Z">>
DigitChars == <<"0","1","2","3","4","5","6","7","8","9">>

Range(f) == {f[i] : i \in DOMAIN f}

\* \w of a JavaScript regular expression: [A-Za-z0-9_]
WordChars == Range(LowerLetters) \cup Range(UpperLetters) \cup Range(DigitChars) \cup {"_"}
\* \s of a JavaScript regular expression, and what String.trim removes
SpaceChars == {" ", "\n", "\t"}

IsWordChar(c) == c \in WordChars
IsSpace(c) == c \in SpaceChars
IsDigit(c) == c \in Range(DigitChars)

\* the characters the model's texts are written in
OtherChars ==
    {"*", "/", "-", ";", "'", "=", ",", "(", ")", ":", "@", ".", "[", "]", "\"", "#"}
Chars == WordChars \cup SpaceChars \cup OtherChars

UpperMap ==
    [c \in Chars |->
        IF c \in Range(LowerLetters)
        THEN UpperLetters[CHOOSE i \in 1..26 : LowerLetters[i] = c]
        ELSE c]
LowerMap ==
    [c \in Chars |->
        IF c \in Range(UpperLetters)
        THEN LowerLetters[CHOOSE i \in 1..26 : UpperLetters[i] = c]
        ELSE c]

\* String.prototype.toUpperCase / toLowerCase
toUpperCase(s) == [i \in 1..Len(s) |-> UpperMap[s[i]]]
toLowerCase(s) == [i \in 1..Len(s) |-> LowerMap[s[i]]]

\* s has the characters of p at position i, compared as they are
StartsAt(s, i, p) ==
    /\ i >= 1
    /\ i + Len(p) - 1 <= Len(s)
    /\ \A j \in 1..Len(p) : s[i + j - 1] = p[j]

\* s has the characters of the upper-case word p at position i, in any case
StartsAtIgnoreCase(s, i, p) ==
    /\ i >= 1
    /\ i + Len(p) - 1 <= Len(s)
    /\ \A j \in 1..Len(p) : UpperMap[s[i + j - 1]] = p[j]

\* String.prototype.startsWith
startsWith(s, p) == StartsAt(s, 1, p)

\* String.prototype.trim
RECURSIVE FirstNonSpace(_, _)
FirstNonSpace(s, i) ==
    IF i > Len(s) \/ ~IsSpace(s[i]) THEN i ELSE FirstNonSpace(s, i + 1)
RECURSIVE LastNonSpace(_, _)
LastNonSpace(s, i) ==
    IF i < 1 \/ ~IsSpace(s[i]) THEN i ELSE LastNonSpace(s, i - 1)
trimEnd(s) == SubSeq(s, 1, LastNonSpace(s, Len(s)))
trim(s) == SubSeq(s, FirstNonSpace(s, 1), LastNonSpace(s, Len(s)))

(***************************************************************************)
(* Keywords.                                                               *)
(***************************************************************************)
KwSELECT == <<"S","E","L","E","C","T">>
KwSHOW == <<"S","H","O","W">>
KwDESCRIBE == <<"D","E","S","C","R","I","B","E">>
KwEXPLAIN == <<"E","X","P","L","A","I","N">>
KwINSERT == <<"I","N","S","E","R","T">>
KwUPDATE == <<"U","P","D","A","T","E">>
KwDELETE == <<"D","E","L","E","T","E">>
KwDROP == <<"D","R","O","P">>
KwALTER == <<"A","L","T","E","R">>
KwTRUNCATE == <<"T","R","U","N","C","A","T","E">>
KwCREATE == <<"C","R","E","A","T","E">>
KwREPLACE == <<"R","E","P","L","A","C","E">>
KwGRANT == <<"G","R","A","N","T">>
KwREVOKE == <<"R","E","V","O","K","E">>
KwLOCK == <<"L","O","C","K">>
KwUNLOCK == <<"U","N","L","O","C","K">>
KwLIMIT == <<"L","I","M","I","T">>

ALLOWED_STATEMENTS == {KwSELECT, KwSHOW, KwDESCRIBE, KwEXPLAIN}

FORBIDDEN_KEYWORDS ==
    {KwINSERT, KwUPDATE, KwDELETE, KwDROP, KwALTER, KwTRUNCATE,
     KwCREATE, KwREPLACE, KwGRANT, KwREVOKE, KwLOCK, KwUNLOCK}

(***************************************************************************)
(* The query validator: validate(text) -> verdict.                         *)
(***************************************************************************)
LineCommentMark == <<"-","-">>
BlockCommentOpen == <<"/","*">>
BlockCommentClose == <<"*","/">>

\* the position of the line break that ends the line of position i, or Len(s)+1
RECURSIVE EndOfLine(_, _)
EndOfLine(s, i) ==
    IF i > Len(s) \/ s[i] = "\n" THEN i ELSE EndOfLine(s, i + 1)

\* the position of the first "*/" at or after i, or 0 when the comment never closes
RECURSIVE BlockCommentEnd(_, _)
BlockCommentEnd(s, i) ==
    IF i + 1 > Len(s) THEN 0
    ELSE IF StartsAt(s, i, BlockCommentClose) THEN i
    ELSE BlockCommentEnd(s, i + 1)

\* the position of the first character after the leading whitespace and comments
RECURSIVE SkipLeading(_, _)
SkipLeading(s, i) ==
    IF i > Len(s) THEN i
    ELSE IF IsSpace(s[i]) THEN SkipLeading(s, i + 1)
    ELSE IF StartsAt(s, i, LineCommentMark) THEN SkipLeading(s, EndOfLine(s, i) + 1)
    ELSE IF StartsAt(s, i, BlockCommentOpen) /\ BlockCommentEnd(s, i + 2) # 0
         THEN SkipLeading(s, BlockCommentEnd(s, i + 2) + 2)
    ELSE i

\* the text without its leading whitespace and comments and its trailing whitespace
normalizeQuery(s) == trimEnd(SubSeq(s, SkipLeading(s, 1), Len(s)))

\* the position after the run of word characters that starts at i
RECURSIVE WordEnd(_, _)
WordEnd(s, i) ==
    IF i > Len(s) \/ ~IsWordChar(s[i]) THEN i ELSE WordEnd(s, i + 1)

\* the leading statement keyword of a normalized text, in upper case
getStatementType(n) == toUpperCase(SubSeq(n, 1, WordEnd(n, 1) - 1))

\* \bKW\b, case-insensitive, at position i of s
WholeWordAt(s, i, kw) ==
    /\ StartsAtIgnoreCase(s, i, kw)
    /\ (i = 1 \/ ~IsWordChar(s[i - 1]))
    /\ (i + Len(kw) > Len(s) \/ ~IsWordChar(s[i + Len(kw)]))

\* the mutant: a keyword is matched as a substring
MatchesKeywordAsSubstring(s, kw) == \E i \in 1..Len(s) : StartsAtIgnoreCase(s, i, kw)
\* the mutant: a keyword is matched in the case it is written in
MatchesKeywordCaseSensitive(s, kw) ==
    \E i \in 1..Len(s) :
        /\ StartsAt(s, i, kw)
        /\ (i = 1 \/ ~IsWordChar(s[i - 1]))
        /\ (i + Len(kw) > Len(s) \/ ~IsWordChar(s[i + Len(kw)]))
MatchesKeyword(s, kw) == \E i \in 1..Len(s) : WholeWordAt(s, i, kw)

containsForbiddenKeyword(n) == \E kw \in FORBIDDEN_KEYWORDS : MatchesKeyword(n, kw)

NoKind == <<>>
ReasonEmpty == "query is empty"
ReasonNotReadOnly == "only read-only statements are allowed"
ReasonForbidden == "query contains a forbidden keyword"
NoReason == ""

Rejected(reason) == [valid |-> FALSE, queryType |-> NoKind, error |-> reason]
Accepted(kind) == [valid |-> TRUE, queryType |-> kind, error |-> NoReason]

\* the mutant: the leading keyword is compared without folding its case
ValidateCaseSensitiveKind(text) ==
    LET n == normalizeQuery(text)
        kind == SubSeq(n, 1, WordEnd(n, 1) - 1)
    IN  IF n = <<>> THEN Rejected(ReasonEmpty)
        ELSE IF kind \notin ALLOWED_STATEMENTS THEN Rejected(ReasonNotReadOnly)
        ELSE IF containsForbiddenKeyword(n) THEN Rejected(ReasonForbidden)
        ELSE Accepted(kind)
\* the mutant: the leading keyword is not checked
ValidateAnyKind(text) ==
    LET n == normalizeQuery(text)
        kind == getStatementType(n)
    IN  IF n = <<>> THEN Rejected(ReasonEmpty)
        ELSE IF containsForbiddenKeyword(n) THEN Rejected(ReasonForbidden)
        ELSE Accepted(kind)
validate(text) ==
    LET n == normalizeQuery(text)
        kind == getStatementType(n)
    IN  IF n = <<>> THEN Rejected(ReasonEmpty)
        ELSE IF kind \notin ALLOWED_STATEMENTS THEN Rejected(ReasonNotReadOnly)
        ELSE IF containsForbiddenKeyword(n) THEN Rejected(ReasonForbidden)
        ELSE Accepted(kind)

isReadOnly(text) == validate(text).valid

(***************************************************************************)
(* The texts handed to validate: the queries of the validator's tests and  *)
(* of the README, every forbidden and every allowed keyword in upper,      *)
(* lower and mixed case in a number of contexts, and every text of at most *)
(* MaxPieces lexical pieces.                                               *)
(***************************************************************************)
QEmpty == <<>>
QSelectUpdatedRecords ==
    <<"S","E","L","E","C","T"," ","*"," ","F","R","O","M"," ","u","p","d","a","t","e","d","_","r","e","c","o","r","d","s">>
QSelectDeletedAt ==
    <<"S","E","L","E","C","T"," ","d","e","l","e","t","e","d","_","a","t"," ","F","R","O","M"," ","u","s","e","r","s">>
QSelectInsertDate ==
    <<"S","E","L","E","C","T"," ","i","n","s","e","r","t","_","d","a","t","e"," ","F","R","O","M"," ","l","o","g","s">>
QSelectDropCount ==
    <<"S","E","L","E","C","T"," ","d","r","o","p","_","c","o","u","n","t"," ","F","R","O","M"," ","s","t","a","t","s">>
QSelectAlterLog ==
    <<"S","E","L","E","C","T"," ","a","l","t","e","r","_","l","o","g"," ","F","R","O","M"," ","c","h","a","n","g","e","s">>
QSelectTruncatedText ==
    <<"S","E","L","E","C","T"," ","t","r","u","n","c","a","t","e","d","_","t","e","x","t"," ","F","R","O","M"," ","a","r","t","i","c","l","e","s">>
QSelectCreatedAt ==
    <<"S","E","L","E","C","T"," ","c","r","e","a","t","e","d","_","a","t"," ","F","R","O","M"," ","p","o","s","t","s">>
QSelectReplacementId ==
    <<"S","E","L","E","C","T"," ","r","e","p","l","a","c","e","m","e","n","t","_","i","d"," ","F","R","O","M"," ","i","t","e","m","s">>
QSelectGrantedAccess ==
    <<"S","E","L","E","C","T"," ","g","r","a","n","t","e","d","_","a","c","c","e","s","s"," ","F","R","O","M"," ","p","e","r","m","i","s","s","i","o","n","s">>
QSelectRevokedAt ==
    <<"S","E","L","E","C","T"," ","r","e","v","o","k","e","d","_","a","t"," ","F","R","O","M"," ","t","o","k","e","n","s">>
QSelectLockedUntil ==
    <<"S","E","L","E","C","T"," ","l","o","c","k","e","d","_","u","n","t","i","l"," ","F","R","O","M"," ","a","c","c","o","u","n","t","s">>
QSelectUnlockedBy ==
    <<"S","E","L","E","C","T"," ","u","n","l","o","c","k","e","d","_","b","y"," ","F","R","O","M"," ","s","e","s","s","i","o","n","s">>
QShowTables ==
    <<"S","H","O","W"," ","T","A","B","L","E","S">>
QShowDatabases ==
    <<"S","H","O","W"," ","D","A","T","A","B","A","S","E","S">>
QShowTableStatus ==
    <<"S","H","O","W"," ","T","A","B","L","E"," ","S","T","A","T","U","S">>
QShowIndexFromUsers ==
    <<"S","H","O","W"," ","I","N","D","E","X"," ","F","R","O","M"," ","u","s","e","r","s">>
QShowCreateTableOrders ==
    <<"S","H","O","W"," ","C","R","E","A","T","E"," ","T","A","B","L","E"," ","o","r","d","e","r","s">>
QSpaces ==
    <<" "," "," ">>
QNewlines ==
    <<"\n","\n">>
QOnlyLineComment ==
    <<"-","-"," ","o","n","l","y"," ","c","o","m","m","e","n","t">>
QOnlyBlockComment ==
    <<"/","*"," ","o","n","l","y"," ","c","o","m","m","e","n","t"," ","*","/">>
QStackedDrop ==
    <<"s","e","l","e","c","t"," ","*"," ","f","r","o","m"," ","t",";"," ","D","R","O","P"," ","T","A","B","L","E"," ","t">>
QSelectAll ==
    <<"S","E","L","E","C","T"," ","*"," ","F","R","O","M"," ","t">>
QSelectAllPadded ==
    <<" "," ","s","e","l","e","c","t"," ","*"," ","f","r","o","m"," ","t"," ">>
QSelectOwnLimit ==
    <<"S","E","L","E","C","T"," ","*"," ","F","R","O","M"," ","t"," ","L","I","M","I","T"," ","2">>
QSelectOwnLimitLower ==
    <<"s","e","l","e","c","t"," ","*"," ","f","r","o","m"," ","t"," ","l","i","m","i","t"," ","1">>
QSelectLimitInLiteral ==
    <<"S","E","L","E","C","T"," ","*"," ","F","R","O","M"," ","t"," ","W","H","E","R","E"," ","c"," ","="," ","'","L","I","M","I","T"," ","1","'">>
QCommentedSelect ==
    <<"-","-"," ","c","\n","S","E","L","E","C","T"," ","*"," ","F","R","O","M"," ","t">>
QCommentedShow ==
    <<"/","*"," ","c"," ","*","/"," ","S","H","O","W"," ","T","A","B","L","E","S">>
QDescribe ==
    <<"D","E","S","C","R","I","B","E"," ","t">>
QExplainSelect ==
    <<"E","X","P","L","A","I","N"," ","S","E","L","E","C","T"," ","*"," ","F","R","O","M"," ","t">>
QDropTable ==
    <<"D","R","O","P"," ","T","A","B","L","E"," ","t">>
TplSelectFromT ==
    <<"S","E","L","E","C","T"," ","*"," ","F","R","O","M"," ","t",";"," ">>
TplFromT ==
    <<" ","F","R","O","M"," ","t">>
TplSelect ==
    <<"S","E","L","E","C","T"," ">>
TplSelectX ==
    <<"S","E","L","E","C","T"," ","x","_">>
TplUnderX ==
    <<"_","x"," ","F","R","O","M"," ","t">>
TplT ==
    <<" ","t">>
TplExplain ==
    <<"E","X","P","L","A","I","N"," ">>
TplShow ==
    <<"S","H","O","W"," ">>
TplCommentOpen ==
    <<"/","*"," ">>
TplCommentCloseSelect ==
    <<" ","*","/"," ","S","E","L","E","C","T"," ","1">>
TplSelectCommentOpen ==
    <<"S","E","L","E","C","T"," ","1"," ","/","*"," ">>
TplCommentClose ==
    <<" ","*","/">>
TplLineComment ==
    <<"-","-"," ","c","\n">>
TplBlockComment ==
    <<"/","*"," ","c"," ","*","/">>
TplX ==
    <<" ","x">>

\* iNsErT: the letters of a word in alternating case
MixedCase(s) == [i \in 1..Len(s) |-> IF i % 2 = 1 THEN LowerMap[s[i]] ELSE UpperMap[s[i]]]
CaseForms(kw) == {kw, toLowerCase(kw), MixedCase(kw)}

TestTexts ==
    {QEmpty, QSpaces, QNewlines, QOnlyLineComment, QOnlyBlockComment, QStackedDrop,
     QSelectUpdatedRecords, QSelectDeletedAt, QSelectInsertDate, QSelectDropCount,
     QSelectAlterLog, QSelectTruncatedText, QSelectCreatedAt, QSelectReplacementId,
     QSelectGrantedAccess, QSelectRevokedAt, QSelectLockedUntil, QSelectUnlockedBy,
     QShowTables, QShowDatabases, QShowTableStatus, QShowIndexFromUsers,
     QShowCreateTableOrders, QSelectAll, QSelectAllPadded, QSelectOwnLimit,
     QSelectOwnLimitLower, QSelectLimitInLiteral, QCommentedSelect, QCommentedShow,
     QDescribe, QExplainSelect, QDropTable}

ForbiddenTemplates(w) ==
    {w \o TplT,
     TplSelectFromT \o w \o TplFromT,
     TplSelect \o w \o TplUnderX,
     TplSelectX \o w \o TplFromT,
     TplExplain \o w \o TplT,
     TplShow \o w \o TplT,
     TplCommentOpen \o w \o TplCommentCloseSelect,
     TplLineComment \o w \o TplT,
     TplSelectCommentOpen \o w \o TplCommentClose}

AllowedTemplates(w) ==
    {w, w \o TplX, <<" ", "\n", "\t">> \o w \o TplX, TplLineComment \o w \o TplX,
     TplBlockComment \o w \o TplX, TplBlockComment \o TplLineComment \o w \o TplX,
     w \o <<"x">>, w \o <<"_">>, <<"x">> \o w \o TplX, w \o <<"(", "1", ")">>,
     TplCommentOpen \o w \o TplX}

TemplateTexts ==
    UNION {ForbiddenTemplates(w) : w \in UNION {CaseForms(kw) : kw \in FORBIDDEN_KEYWORDS}}
    \cup UNION {AllowedTemplates(w) : w \in UNION {CaseForms(kw) : kw \in ALLOWED_STATEMENTS}}

Pieces ==
    {KwSELECT, toLowerCase(KwSHOW), KwDROP, toLowerCase(KwUPDATE),
     <<" ">>, <<"\n">>, <<"_">>,
     LineCommentMark, BlockCommentOpen, BlockCommentClose}

RECURSIVE Flatten(_)
Flatten(ps) == IF ps = <<>> THEN <<>> ELSE Head(ps) \o Flatten(Tail(ps))

FreeTexts == {Flatten(ps) : ps \in UNION {[1..n -> Pieces] : n \in 0..MaxPieces}}

Texts == TestTexts \cup TemplateTexts \cup FreeTexts

(***************************************************************************)
(* State.                                                                  *)
(***************************************************************************)
VARIABLES
    vtext,          \* the text handed to validate
    verdict,        \* what validate returned for it, or NoVerdict
    pools,          \* ConnectionManager.pools: the databases that have a pool
    pc,             \* where the executeQuery call is: idle, running, done
    call,           \* the arguments of the executeQuery call
    tableRows,      \* how many rows of the database match the call's query
    poolLookedUp,   \* getPool was called for the call
    timerArmed,     \* the setTimeout of the call is pending
    queryInFlight,  \* the pool.execute of the call has not settled
    effectiveLimit, \* effectiveLimit of the call
    sent,           \* the texts handed to pool.execute by the call
    outcome,        \* what the call returned or threw, or NoOutcome
    \* concurrent executeQuery calls on the pool of one database
    issued,         \* how many executeQuery calls were made (they are 1..issued)
    qstate,         \* per call, where its pool.execute is
    timer,          \* per call, whether its setTimeout is pending or has run
    events,         \* per call, what settled so far, in order
    delivered,      \* per call, the outcomes its caller received, in order
    submitted,      \* per call, how many times its query was handed to the pool
    queue,          \* the pool's queue of calls waiting for a connection
    free,           \* the pool's idle connections
    created,        \* how many connections the pool has opened
    running,        \* per connection, the calls whose query runs on it
    \* messages
    original,       \* a text handed to sanitizeMessage, or the message of an error
    dbconfig,       \* the DatabaseConfig of a testConnection call
    failedAt,       \* the step at which a call failed
    produced,       \* the messages produced from it, in order
    \* limits
    requestedLimit, \* the limit a tool call asks for
    enforced,       \* what enforceRowLimit / enforceQueryLimit returned for it
    \* tool calls
    request,        \* the arguments of a tool call
    response,       \* what the tool call returned
    catalog,        \* what the database holds when the tool call is made
    \* the manager and the pools it builds
    configs,        \* ConnectionManager.configs: per database, its DatabaseConfig
    driver,         \* the pools mysql.createPool made, in the order they were made
    op              \* the manager call that completed last, or <<>>

validatorVars == <<vtext, verdict>>
managerVars ==
    <<pools, pc, call, tableRows, poolLookedUp, timerArmed, queryInFlight,
      effectiveLimit, sent, outcome>>
poolVars ==
    <<issued, qstate, timer, events, delivered, submitted, queue, free, created,
      running>>
messageVars == <<original, dbconfig, failedAt, produced>>
limitVars == <<requestedLimit, enforced>>
toolVars == <<request, response, catalog>>
lifeVars == <<configs, driver, op>>
laterVars == <<poolVars, messageVars, limitVars, toolVars, lifeVars>>
vars == <<vtext, verdict, pools, pc, call, tableRows, poolLookedUp, timerArmed,
          queryInFlight, effectiveLimit, sent, outcome, poolVars, messageVars,
          limitVars, toolVars, lifeVars>>

NoVerdict == [valid |-> FALSE, queryType |-> NoKind, error |-> "not validated"]

Databases == {"crm", "operation"}

\* an optional number: <<>> is undefined, <<n>> is n
Undefined == <<>>
NoCall == [database |-> "crm", query |-> QEmpty, limit |-> Undefined]
NoOutcome ==
    [kind |-> "none", rows |-> <<>>, rowCount |-> 0, truncated |-> FALSE, message |-> ""]

\* a new ConnectionManager(), no call made
ManagerIdle ==
    /\ pc = "idle"
    /\ call = NoCall
    /\ tableRows = 0
    /\ poolLookedUp = FALSE
    /\ timerArmed = FALSE
    /\ queryInFlight = FALSE
    /\ effectiveLimit = 0
    /\ sent = <<>>
    /\ outcome = NoOutcome

\* no executeQuery call was made on the pool
PoolIdle ==
    /\ issued = 0
    /\ qstate = <<>>
    /\ timer = <<>>
    /\ events = <<>>
    /\ delivered = <<>>
    /\ submitted = <<>>
    /\ queue = <<>>
    /\ free = {}
    /\ created = 0
    /\ running = <<>>

\* no message was built
MessagesIdle ==
    /\ original = <<>>
    /\ dbconfig = <<>>
    /\ failedAt = "none"
    /\ produced = <<>>

\* no limit was asked for
LimitsIdle ==
    /\ requestedLimit = <<>>
    /\ enforced = <<>>

\* no tool call was made
ToolsIdle ==
    /\ request = <<>>
    /\ response = <<>>
    /\ catalog = <<>>

\* no pool was built
LifeIdle ==
    /\ configs = <<>>
    /\ driver = <<>>
    /\ op = <<>>

LaterIdle == PoolIdle /\ MessagesIdle /\ LimitsIdle /\ ToolsIdle /\ LifeIdle

(***************************************************************************)
(* The validator, applied to one text.                                     *)
(***************************************************************************)
InitValidate ==
    /\ vtext \in Texts
    /\ verdict = NoVerdict
    /\ pools = {}
    /\ ManagerIdle
    /\ LaterIdle

Validate ==
    /\ verdict = NoVerdict
    /\ verdict' = validate(vtext)
    /\ UNCHANGED vtext
    /\ UNCHANGED managerVars
    /\ UNCHANGED laterVars

NextValidate == Validate

SpecValidate == InitValidate /\ [][NextValidate]_vars

(***************************************************************************)
(* Properties of validate, under SpecValidate.                             *)
(***************************************************************************)
Validated == verdict # NoVerdict

\* kw occurs in t as a whole word, in any letter case
OccursAsWord(t, kw) == \E i \in 1..Len(t) : WholeWordAt(t, i, kw)
\* kw occurs in t, in any letter case, as a word or inside one
OccursAnywhere(t, kw) == \E i \in 1..Len(t) : StartsAtIgnoreCase(t, i, kw)
\* t, after its leading whitespace and comments, begins with the word kw
BeginsWithKeyword(t, kw) ==
    LET i == SkipLeading(t, 1)
    IN  /\ StartsAtIgnoreCase(t, i, kw)
        /\ (i + Len(kw) > Len(t) \/ ~IsWordChar(t[i + Len(kw)]))
\* t from its first character after the leading whitespace and comments
AfterLeadingComments(t) == SubSeq(t, SkipLeading(t, 1), Len(t))

C3_AllowedAccepted ==
    \A kw \in ALLOWED_STATEMENTS :
        (/\ Validated
         /\ BeginsWithKeyword(vtext, kw)
         /\ \A f \in FORBIDDEN_KEYWORDS : ~OccursAsWord(vtext, f))
            => verdict = Accepted(kw)

C3_Witness ==
    /\ Validated
    /\ vtext = TplBlockComment \o TplLineComment \o MixedCase(KwDESCRIBE) \o TplX
    /\ verdict = Accepted(KwDESCRIBE)

\* C4: a text in which a forbidden keyword occurs only inside identifiers is
\* not rejected for holding a forbidden keyword, and is accepted when it begins
\* with an allowed keyword; SELECT * FROM updated_records is accepted as SELECT.
C4_WholeWordOnly ==
    /\ (/\ Validated
        /\ \E f \in FORBIDDEN_KEYWORDS : OccursAnywhere(vtext, f)
        /\ \A f \in FORBIDDEN_KEYWORDS : ~OccursAsWord(vtext, f))
            => /\ verdict.error # ReasonForbidden
               /\ \A kw \in ALLOWED_STATEMENTS :
                      BeginsWithKeyword(vtext, kw) => verdict = Accepted(kw)
    /\ (Validated /\ vtext = QSelectUpdatedRecords) => verdict = Accepted(KwSELECT)

C4_Witness ==
    /\ Validated
    /\ vtext = QSelectUpdatedRecords
    /\ OccursAnywhere(vtext, KwUPDATE)
    /\ verdict = Accepted(KwSELECT)

\* C5: a text whose leading keyword, after normalisation, is none of SELECT,
\* SHOW, DESCRIBE, EXPLAIN is rejected with no statement kind; so are the empty
\* text and the texts of whitespace and comments only.
C5_NotReadOnlyRejected ==
    (Validated /\ \A kw \in ALLOWED_STATEMENTS : ~BeginsWithKeyword(vtext, kw))
        => (~verdict.valid /\ verdict.queryType = NoKind /\ verdict.error # NoReason)

C5_Witness ==
    /\ Validated
    /\ vtext = QOnlyBlockComment
    /\ ~verdict.valid
    /\ verdict.queryType = NoKind

\* C6: validate accepts the SHOW statements of the test suite (SHOW TABLES,
\* SHOW DATABASES, SHOW TABLE STATUS, SHOW INDEX FROM users, SHOW CREATE TABLE
\* orders) as SHOW, and isReadOnly is true of them.
C6_ShowStatementsAccepted ==
    (/\ Validated
     /\ vtext \in {QShowTables, QShowDatabases, QShowTableStatus,
                   QShowIndexFromUsers, QShowCreateTableOrders})
        => (verdict = Accepted(KwSHOW) /\ isReadOnly(vtext))

(***************************************************************************)
(* The MySQL engine behind pool.execute: what it answers to a text, for a  *)
(* table of n matching rows.  The engine skips leading comments, refuses a *)
(* LIMIT that is not the closing clause "LIMIT <digits>" of a SELECT (or   *)
(* of the SELECT an EXPLAIN explains), and applies the closing LIMIT of a  *)
(* SELECT.  SHOW, DESCRIBE and EXPLAIN answer with all their rows.         *)
(***************************************************************************)
Min(a, b) == IF a < b THEN a ELSE b
Max(a, b) == IF a > b THEN a ELSE b

\* the position after the run of non-space characters that starts at i
RECURSIVE TokenEnd(_, _)
TokenEnd(s, i) ==
    IF i > Len(s) \/ IsSpace(s[i]) THEN i ELSE TokenEnd(s, i + 1)

\* the whitespace-separated tokens of s from position i on
RECURSIVE TokensFrom(_, _)
TokensFrom(s, i) ==
    LET b == FirstNonSpace(s, i)
    IN  IF b > Len(s) THEN <<>>
        ELSE <<SubSeq(s, b, TokenEnd(s, b) - 1)>> \o TokensFrom(s, TokenEnd(s, b))

AllDigits(t) == Len(t) > 0 /\ \A i \in 1..Len(t) : IsDigit(t[i])

DigitValue(c) == (CHOOSE i \in 1..10 : DigitChars[i] = c) - 1
RECURSIVE ParseNat(_)
ParseNat(t) ==
    IF t = <<>> THEN 0
    ELSE 10 * ParseNat(SubSeq(t, 1, Len(t) - 1)) + DigitValue(t[Len(t)])

\* the text as the engine reads it: outside quoted literals "-- " and "#"
\* start a comment that runs to the end of the line and a closed /* */ counts
\* as a space; leading whitespace is skipped
CommentStartsAt(s, j) ==
    \/ StartsAt(s, j, LineCommentMark) /\ (j + 2 > Len(s) \/ IsSpace(s[j + 2]))
    \/ s[j] = "#"
    \/ StartsAt(s, j, BlockCommentOpen) /\ BlockCommentEnd(s, j + 2) # 0
\* position j is inside a quoted literal that opened at or after position i
InLiteral(s, i, j) == Cardinality({k \in i..(j - 1) : s[k] = "'"}) % 2 = 1
\* the text from position i on (i is outside every literal and comment)
RECURSIVE StripComments(_, _)
StripComments(s, i) ==
    LET starts == {j \in i..Len(s) : CommentStartsAt(s, j) /\ ~InLiteral(s, i, j)}
        c == CHOOSE j \in starts : \A k \in starts : j <= k
    IN  IF starts = {} THEN SubSeq(s, i, Len(s))
        ELSE IF StartsAt(s, c, BlockCommentOpen)
             THEN SubSeq(s, i, c - 1) \o <<" ">>
                      \o StripComments(s, BlockCommentEnd(s, c + 2) + 2)
        ELSE SubSeq(s, i, c - 1) \o StripComments(s, EndOfLine(s, c))
EngineText(text) ==
    LET t == StripComments(text, 1)
    IN  SubSeq(t, FirstNonSpace(t, 1), Len(t))
EngineStatement(text) == getStatementType(EngineText(text))
EngineTokens(text) == TokensFrom(EngineText(text), 1)
EngineLimitTokens(text) ==
    LET toks == EngineTokens(text)
    IN  {i \in 1..Len(toks) : toUpperCase(toks[i]) = KwLIMIT}
EngineHasLimitClause(text) ==
    LET toks == EngineTokens(text)
    IN  /\ EngineLimitTokens(text) = {Len(toks) - 1}
        /\ AllDigits(toks[Len(toks)])

\* the engine executes the text (it is no syntax error)
EngineAccepts(text) ==
    \/ /\ EngineStatement(text) \in {KwSELECT, KwEXPLAIN}
       /\ (EngineLimitTokens(text) = {} \/ EngineHasLimitClause(text))
    \/ /\ EngineStatement(text) \in {KwSHOW, KwDESCRIBE}
       /\ EngineLimitTokens(text) = {}

\* the rows the engine returns, of the n rows that match: rows 1, 2, ...
EngineRows(text, n) ==
    LET toks == EngineTokens(text)
        k == IF EngineStatement(text) = KwSELECT /\ EngineHasLimitClause(text)
             THEN Min(ParseNat(toks[Len(toks)]), n)
             ELSE n
    IN  [i \in 1..k |-> i]

(***************************************************************************)
(* ConnectionManager.                                                      *)
(***************************************************************************)
\* LIMITS.QUERY_DEFAULT
QUERY_DEFAULT == 1000

\* the decimal digits of a natural number
RECURSIVE NatToString(_)
NatToString(n) ==
    IF n < 10 THEN <<DigitChars[n + 1]>>
    ELSE NatToString(n \div 10) \o <<DigitChars[(n % 10) + 1]>>
\* `${limit}` of an integer
NumberToString(n) == IF n < 0 THEN <<"-">> \o NatToString(0 - n) ELSE NatToString(n)

\* /\bLIMIT\s+\d+/i.test(query)
HasLimitPattern(query) ==
    \E i \in 1..Len(query) :
        /\ StartsAtIgnoreCase(query, i, KwLIMIT)
        /\ (i = 1 \/ ~IsWordChar(query[i - 1]))
        /\ LET j == FirstNonSpace(query, i + Len(KwLIMIT))
           IN  /\ j > i + Len(KwLIMIT)
               /\ j <= Len(query)
               /\ IsDigit(query[j])

LimitClause == <<" ","L","I","M","I","T"," ">>

addLimitToQuery(query, limit) ==
    LET normalizedQuery == toUpperCase(trim(query))
    IN  IF HasLimitPattern(query) THEN query
        ELSE IF \/ startsWith(normalizedQuery, KwSHOW)
                \/ startsWith(normalizedQuery, KwDESCRIBE)
                \/ startsWith(normalizedQuery, KwEXPLAIN)
        THEN query
        ELSE trim(query) \o LimitClause \o NumberToString(limit)

\* the mutant: the query asks for limit rows, not for one more
QueryWithLimitExact(query, limit) == addLimitToQuery(query, limit)
\* executeWithLimit: addLimitToQuery(query, limit + 1)
QueryWithLimit(query, limit) == addLimitToQuery(query, limit + 1)

\* Array.prototype.slice(0, limit)
slice0(rows, limit) ==
    IF limit < 0 THEN SubSeq(rows, 1, Max(0, Len(rows) + limit))
    ELSE SubSeq(rows, 1, Min(limit, Len(rows)))

\* executeWithLimit, from the rows pool.execute returned
ShapeResult(rows, limit) ==
    LET truncated == Len(rows) > limit
        resultRows == IF truncated THEN slice0(rows, limit) ELSE rows
    IN  [kind |-> "ok", rows |-> resultRows, rowCount |-> Len(resultRows),
         truncated |-> truncated, message |-> ""]

Failure(message) ==
    [kind |-> "error", rows |-> <<>>, rowCount |-> 0, truncated |-> FALSE,
     message |-> message]

MsgInvalidQuery == "Invalid query"
MsgPoolNotInitialized == "Connection pool not initialized for database"
MsgTimeout == "Query exceeded 30 second timeout limit"
MsgDatabaseError == "database error"

\* the mutant: the verdict of validate is not looked at
ValidationIgnored(validation) == TRUE
\* !(!validation.valid)
ValidationPasses(validation) == validation.valid

\* limit ?? LIMITS.QUERY_DEFAULT
ResolveLimit(limit) == IF limit = Undefined THEN QUERY_DEFAULT ELSE limit[1]

\* the row counts of the table, and the limits a caller passes
RowCounts == (0..MaxRows) \cup {150}
Limits == {Undefined} \cup {<<n>> : n \in ((0 - 2)..MaxLimit) \cup {100}}

\* the query texts handed to executeQuery
Queries ==
    {QEmpty, QOnlyLineComment, QDropTable, QStackedDrop, QShowCreateTableOrders,
     QSelectAll, QSelectAllPadded, QSelectUpdatedRecords, QCommentedSelect,
     QSelectOwnLimit, QSelectOwnLimitLower, QSelectLimitInLiteral,
     QShowTables, QCommentedShow, QDescribe, QExplainSelect}

Init ==
    /\ vtext = QEmpty
    /\ verdict = NoVerdict
    /\ pools = {}
    /\ ManagerIdle
    /\ LaterIdle

\* initialize(crmConfig, operationConfig)
Initialize ==
    /\ pools' = Databases
    /\ UNCHANGED <<pc, call, tableRows, poolLookedUp, timerArmed, queryInFlight,
                   effectiveLimit, sent, outcome>>
    /\ UNCHANGED validatorVars
    /\ UNCHANGED laterVars

\* close()
Close ==
    /\ pools' = {}
    /\ UNCHANGED <<pc, call, tableRows, poolLookedUp, timerArmed, queryInFlight,
                   effectiveLimit, sent, outcome>>
    /\ UNCHANGED validatorVars
    /\ UNCHANGED laterVars

\* executeQuery(database, query, [], limit), up to its await; the table has
\* n rows that match the query
ExecuteQuery(database, query, limit, n) ==
    /\ pc = "idle"
    /\ call' = [database |-> database, query |-> query, limit |-> limit]
    /\ tableRows' = n
    /\ LET validation == validate(query)
       IN  IF ~ValidationPasses(validation)
           THEN \* throw new Error(validation.error || 'Invalid query')
                /\ outcome' = Failure(IF validation.error # NoReason
                                      THEN validation.error ELSE MsgInvalidQuery)
                /\ pc' = "done"
                /\ UNCHANGED <<poolLookedUp, timerArmed, queryInFlight,
                               effectiveLimit, sent>>
           ELSE IF database \notin pools
           THEN \* getPool throws
                /\ poolLookedUp' = TRUE
                /\ outcome' = Failure(MsgPoolNotInitialized)
                /\ pc' = "done"
                /\ UNCHANGED <<timerArmed, queryInFlight, effectiveLimit, sent>>
           ELSE /\ poolLookedUp' = TRUE
                /\ effectiveLimit' = ResolveLimit(limit)
                /\ timerArmed' = TRUE
                /\ sent' = <<QueryWithLimit(query, ResolveLimit(limit))>>
                /\ queryInFlight' = TRUE
                /\ pc' = "running"
                /\ UNCHANGED outcome
    /\ UNCHANGED pools
    /\ UNCHANGED validatorVars
    /\ UNCHANGED laterVars

\* pool.execute resolves: executeWithLimit returns, and the race is won by the
\* query unless the call has already ended
QueryCompletes ==
    /\ queryInFlight
    /\ EngineAccepts(sent[1])
    /\ queryInFlight' = FALSE
    /\ IF pc = "running"
       THEN /\ outcome' = ShapeResult(EngineRows(sent[1], tableRows), effectiveLimit)
            /\ pc' = "done"
       ELSE UNCHANGED <<outcome, pc>>
    /\ UNCHANGED <<pools, call, tableRows, poolLookedUp, timerArmed, effectiveLimit, sent>>
    /\ UNCHANGED validatorVars
    /\ UNCHANGED laterVars

\* pool.execute rejects: a syntax error, or any other failure of the database
QueryFails ==
    /\ queryInFlight
    /\ queryInFlight' = FALSE
    /\ IF pc = "running"
       THEN /\ outcome' = Failure(MsgDatabaseError)
            /\ pc' = "done"
       ELSE UNCHANGED <<outcome, pc>>
    /\ UNCHANGED <<pools, call, tableRows, poolLookedUp, timerArmed, effectiveLimit, sent>>
    /\ UNCHANGED validatorVars
    /\ UNCHANGED laterVars

\* the setTimeout callback runs: the race is won by the timeout unless the call
\* has already ended
TimeoutFires ==
    /\ timerArmed
    /\ timerArmed' = FALSE
    /\ IF pc = "running"
       THEN /\ outcome' = Failure(MsgTimeout)
            /\ pc' = "done"
       ELSE UNCHANGED <<outcome, pc>>
    /\ UNCHANGED <<pools, call, tableRows, poolLookedUp, queryInFlight, effectiveLimit, sent>>
    /\ UNCHANGED validatorVars
    /\ UNCHANGED laterVars

\* the caller has the outcome; the manager is ready for the next call
Return ==
    /\ pc = "done"
    /\ pc' = "idle"
    /\ call' = NoCall
    /\ tableRows' = 0
    /\ poolLookedUp' = FALSE
    /\ timerArmed' = FALSE
    /\ queryInFlight' = FALSE
    /\ effectiveLimit' = 0
    /\ sent' = <<>>
    /\ outcome' = NoOutcome
    /\ UNCHANGED pools
    /\ UNCHANGED validatorVars
    /\ UNCHANGED laterVars

Next ==
    \/ Initialize
    \/ Close
    \/ \E database \in Databases, query \in Queries, limit \in Limits, n \in RowCounts :
           ExecuteQuery(database, query, limit, n)
    \/ QueryCompletes
    \/ QueryFails
    \/ TimeoutFires
    \/ Return

Spec == Init /\ [][Next]_vars

(***************************************************************************)
(* Properties of executeQuery, under Spec.                                 *)
(***************************************************************************)
\* C1: a call whose text validate rejects ends at once with the verdict's
\* reason: no pool is looked up, no timer is armed, nothing is handed to
\* pool.execute; every text handed to pool.execute was accepted by validate.
C1_RejectedNeverReachesPool ==
    /\ (pc # "idle" /\ ~validate(call.query).valid)
           => /\ pc = "done"
              /\ outcome = Failure(validate(call.query).error)
              /\ ~poolLookedUp
              /\ ~timerArmed
              /\ ~queryInFlight
              /\ sent = <<>>
    /\ (sent # <<>> \/ queryInFlight \/ timerArmed \/ poolLookedUp)
           => validate(call.query).valid

C1_Witness ==
    /\ pc = "done"
    /\ call.query = QStackedDrop
    /\ call.database \in pools
    /\ outcome = Failure(ReasonForbidden)
    /\ sent = <<>>
    /\ ~poolLookedUp

\* C7: every successful result has rowCount = the number of its rows, and that
\* is at most the effective limit of the call, for every statement kind, every
\* query text and every limit the caller passes.
C7_RowCountWithinLimit ==
    outcome.kind = "ok"
        => /\ outcome.rowCount = Len(outcome.rows)
           /\ outcome.rowCount <= effectiveLimit

\* C8: in every successful result truncated is true if and only if more rows
\* match the query than the result returns (it is stated here for the effective
\* limits of at least 1 only).
C8_TruncatedIffMoreRows ==
    (outcome.kind = "ok" /\ effectiveLimit >= 1)
        => (outcome.truncated <=> tableRows > outcome.rowCount)

\* C9: for an effective limit L >= 1, a successful SELECT without a LIMIT clause
\* of its own over more than L matching rows returns exactly the first L rows,
\* with rowCount = L and truncated = true; no successful result has more rows
\* than the limit and truncated = false.
C9_TruncationFlagConsistent ==
    /\ (/\ outcome.kind = "ok"
        /\ effectiveLimit >= 1
        /\ EngineStatement(call.query) = KwSELECT
        /\ ~EngineHasLimitClause(call.query)
        /\ tableRows > effectiveLimit)
           => /\ outcome.rows = [i \in 1..effectiveLimit |-> i]
              /\ outcome.rowCount = effectiveLimit
              /\ outcome.truncated
    /\ outcome.kind = "ok"
           => ~(Len(outcome.rows) > effectiveLimit /\ ~outcome.truncated)

C9_Witness ==
    /\ pc = "done"
    /\ call.query = QSelectAll
    /\ call.limit = <<100>>
    /\ tableRows = 150
    /\ outcome.kind = "ok"
    /\ outcome.rowCount = 100
    /\ outcome.truncated

\* C10: the text handed to pool.execute is the query with " LIMIT <effective
\* limit + 1>" appended, unless the query holds a LIMIT clause or validate
\* recognises it as SHOW, DESCRIBE or EXPLAIN: then it is the query untouched.
\* (The query is taken up to its surrounding whitespace, and a LIMIT clause is
\* what the code's pattern finds.)
C10_LimitAppendedByKind ==
    sent # <<>>
        => LET query == call.query
               clause == LimitClause \o NumberToString(effectiveLimit + 1)
           IN  IF \/ HasLimitPattern(query)
                  \/ validate(query).queryType \in {KwSHOW, KwDESCRIBE, KwEXPLAIN}
               THEN sent[1] = query
               ELSE sent[1] \in {query \o clause, trim(query) \o clause}

(***************************************************************************)
(* The credential sanitizer: SENSITIVE_PATTERNS and sanitizeMessage.  Each *)
(* regular expression is matched as the JavaScript engine matches it: the  *)
(* leftmost match, every quantifier greedy.                                *)
(***************************************************************************)
KwPASSWORD == <<"P","A","S","S","W","O","R","D">>
KwPWD == <<"P","W","D">>
KwSECRET == <<"S","E","C","R","E","T">>
KwTOKEN == <<"T","O","K","E","N">>
KwKEY == <<"K","E","Y">>
MysqlScheme == <<"M","Y","S","Q","L",":","/","/">>

\* '[REDACTED]'
REDACTED == <<"[","R","E","D","A","C","T","E","D","]">>

\* ['"]
IsQuote(c) == c \in {"'", "\""}
\* [^'"\s]
IsValueChar(c) == ~IsQuote(c) /\ ~IsSpace(c)
\* [a-zA-Z0-9.-]
IsHostChar(c) ==
    c \in Range(LowerLetters) \cup Range(UpperLetters) \cup Range(DigitChars) \cup {".", "-"}

\* the position after the run of [^'"\s] that starts at i
RECURSIVE ValueEnd(_, _)
ValueEnd(s, i) ==
    IF i > Len(s) \/ ~IsValueChar(s[i]) THEN i ELSE ValueEnd(s, i + 1)
\* the position after the run of [a-zA-Z0-9.-] that starts at i
RECURSIVE HostEnd(_, _)
HostEnd(s, i) ==
    IF i > Len(s) \/ ~IsHostChar(s[i]) THEN i ELSE HostEnd(s, i + 1)
\* the position of the first ':' at or after i, Len(s) + 1 if there is none
RECURSIVE ColonFrom(_, _)
ColonFrom(s, i) ==
    IF i > Len(s) \/ s[i] = ":" THEN i ELSE ColonFrom(s, i + 1)
\* the position of the first line end at or after i, Len(s) + 1 if there is none
RECURSIVE LineEnd(_, _)
LineEnd(s, i) ==
    IF i > Len(s) \/ s[i] = "\n" THEN i ELSE LineEnd(s, i + 1)

\* /word[=:]\s*['"]?[^'"\s]+['"]?/i at position i: the position after the
\* match, 0 if there is no match at i
KeyedMatchEnd(s, i, word) ==
    LET a == i + Len(word)
        k == FirstNonSpace(s, a + 1)
        v == IF k < Len(s) /\ IsQuote(s[k]) /\ IsValueChar(s[k + 1]) THEN k + 1 ELSE k
        e == ValueEnd(s, v)
    IN  IF ~StartsAtIgnoreCase(s, i, word) THEN 0
        ELSE IF a > Len(s) \/ s[a] \notin {"=", ":"} THEN 0
        ELSE IF v > Len(s) \/ ~IsValueChar(s[v]) THEN 0
        ELSE IF e <= Len(s) /\ IsQuote(s[e]) THEN e + 1
        ELSE e

\* /mysql:\/\/[^:]+:.+@[a-zA-Z0-9.-]+/i at position i: [^:]+ runs to the first
\* ':', and .+ to the last '@' of the line that a host character follows
UrlMatchEnd(s, i) ==
    LET a == i + Len(MysqlScheme)
        c == ColonFrom(s, a)
        l == LineEnd(s, c + 1)
        ats == {p \in (c + 2)..(l - 1) : s[p] = "@" /\ p < Len(s) /\ IsHostChar(s[p + 1])}
    IN  IF ~StartsAtIgnoreCase(s, i, MysqlScheme) THEN 0
        ELSE IF c = a \/ c > Len(s) THEN 0
        ELSE IF ats = {} THEN 0
        ELSE HostEnd(s, (CHOOSE p \in ats : \A q \in ats : q <= p) + 1)

SENSITIVE_PATTERNS ==
    <<[shape |-> "keyed", word |-> KwPASSWORD],
      [shape |-> "keyed", word |-> KwPWD],
      [shape |-> "keyed", word |-> KwSECRET],
      [shape |-> "keyed", word |-> KwTOKEN],
      [shape |-> "keyed", word |-> KwKEY],
      [shape |-> "url", word |-> MysqlScheme]>>

MatchEnd(s, i, pattern) ==
    IF pattern.shape = "keyed" THEN KeyedMatchEnd(s, i, pattern.word)
    ELSE UrlMatchEnd(s, i)

\* the matches of the pattern from position i on replaced by '[REDACTED]'
RECURSIVE ReplaceFrom(_, _, _)
ReplaceFrom(s, i, pattern) ==
    IF i > Len(s) THEN <<>>
    ELSE LET e == MatchEnd(s, i, pattern)
         IN  IF e > 0 THEN REDACTED \o ReplaceFrom(s, e, pattern)
             ELSE <<s[i]>> \o ReplaceFrom(s, i + 1, pattern)

\* the position of the first match of the pattern at or after i, Len(s) + 1 if
\* there is none
RECURSIVE FirstMatch(_, _, _)
FirstMatch(s, i, pattern) ==
    IF i > Len(s) \/ MatchEnd(s, i, pattern) > 0 THEN i
    ELSE FirstMatch(s, i + 1, pattern)

\* sanitized.replace(pattern, '[REDACTED]'), the pattern having the g flag
replace(s, pattern) == ReplaceFrom(s, 1, pattern)

\* the loop of sanitizeMessage from the k-th pattern on
RECURSIVE SanitizeFrom(_, _)
SanitizeFrom(sanitized, k) ==
    IF k > Len(SENSITIVE_PATTERNS) THEN sanitized
    ELSE SanitizeFrom(replace(sanitized, SENSITIVE_PATTERNS[k]), k + 1)

sanitizeMessage(text) == SanitizeFrom(text, 1)

\* the text has a match of one of the patterns
MatchesSensitivePattern(text) ==
    \E k \in 1..Len(SENSITIVE_PATTERNS) :
        FirstMatch(text, 1, SENSITIVE_PATTERNS[k]) <= Len(text)

(***************************************************************************)
(* Concurrent executeQuery calls on the pool of one database.  The pool    *)
(* is the one createPool builds: waitForConnections, connectionLimit 5,    *)
(* queueLimit 0.  Every call here has a query validate accepts and a       *)
(* database whose pool exists; calls are numbered in the order they are    *)
(* made.                                                                   *)
(***************************************************************************)
\* the most executeQuery calls made
MaxCalls == 7
\* the most timers that run
MaxTimeouts == 2

\* LIMITS.TIMEOUT_MS
TIMEOUT_MS == 30000
\* createPool: connectionLimit, queueLimit
connectionLimit == 5
queueLimit == 0

\* the mutant: the duration is put in the message in milliseconds
TimeoutMillis == TIMEOUT_MS
\* LIMITS.TIMEOUT_MS / 1000
TimeoutSeconds == TIMEOUT_MS \div 1000

\* `Query exceeded ${LIMITS.TIMEOUT_MS / 1000} second timeout limit`
TimeoutMessage ==
    <<"Q","u","e","r","y"," ","e","x","c","e","e","d","e","d"," ">>
        \o NumberToString(TimeoutSeconds)
        \o <<" ","s","e","c","o","n","d"," ","t","i","m","e","o","u","t"," ","l","i","m","i","t">>
\* the message of the pool when its queue is full
QueueLimitMessage ==
    <<"Q","u","e","u","e"," ","l","i","m","i","t"," ","r","e","a","c","h","e","d",".">>
\* a message of the driver when the database fails the query
NoSuchTableMessage ==
    <<"T","a","b","l","e"," ","'","c","r","m",".","t","'"," ","d","o","e","s","n","'","t",
      " ","e","x","i","s","t">>

\* what a call gives its caller: the result of executeWithLimit, or the error
\* the catch of executeQuery throws
Returned == [kind |-> "ok", message |-> <<>>]
Thrown(text) == [kind |-> "error", message |-> sanitizeMessage(text)]
TimeoutError == Thrown(TimeoutMessage)
NoSuchTableError == Thrown(NoSuchTableMessage)
QueueLimitError == Thrown(QueueLimitMessage)

\* the mutant: every settlement of the race reaches the caller
SettleEvery(got, new) == Append(got, new)
\* await Promise.race([queryPromise, timeoutPromise]): the first settlement is
\* the outcome, a later one is dropped
Settle(got, new) == IF got = <<>> THEN <<new>> ELSE got

\* the mutant: the waiting call that arrived last is served first
DequeueLast(q) == [call |-> q[Len(q)], rest |-> SubSeq(q, 1, Len(q) - 1)]
\* the pool serves the waiting call that arrived first
Dequeue(q) == [call |-> Head(q), rest |-> Tail(q)]

\* the connections on which a query of call c runs
ConnectionsOf(c) == {k \in 1..created : c \in running[k]}
\* the mutant: the timeout callback gives the call's connection back to the pool
ReleasedOnTimeoutAll(c) == ConnectionsOf(c)
\* the setTimeout callback only rejects the timeout promise: it cancels no
\* query and releases no connection
ReleasedOnTimeout(c) == {}

CallIds == 1..issued
Executing == {c \in CallIds : qstate[c] = "executing"}

InitPool ==
    /\ vtext = QEmpty
    /\ verdict = NoVerdict
    /\ pools = Databases
    /\ ManagerIdle
    /\ LaterIdle

\* executeQuery up to its await: the timer is set, and pool.execute takes an
\* idle connection, opens one, or puts the call in the queue
CallExecuteQuery ==
    /\ issued < MaxCalls
    /\ LET c == issued + 1
       IN  /\ issued' = c
           /\ timer' = Append(timer, "armed")
           /\ submitted' = Append(submitted, 1)
           /\ IF free # {}
              THEN LET k == CHOOSE k \in free : \A j \in free : k <= j
                   IN  /\ free' = free \ {k}
                       /\ running' = [running EXCEPT ![k] = @ \cup {c}]
                       /\ qstate' = Append(qstate, "executing")
                       /\ UNCHANGED <<created, queue>>
                       /\ events' = Append(events, <<>>)
                       /\ delivered' = Append(delivered, <<>>)
              ELSE IF created < connectionLimit
              THEN /\ created' = created + 1
                   /\ running' = Append(running, {c})
                   /\ qstate' = Append(qstate, "executing")
                   /\ UNCHANGED <<free, queue>>
                   /\ events' = Append(events, <<>>)
                   /\ delivered' = Append(delivered, <<>>)
              ELSE IF queueLimit = 0 \/ Len(queue) < queueLimit
              THEN /\ queue' = Append(queue, c)
                   /\ qstate' = Append(qstate, "queued")
                   /\ UNCHANGED <<free, created, running>>
                   /\ events' = Append(events, <<>>)
                   /\ delivered' = Append(delivered, <<>>)
              ELSE /\ qstate' = Append(qstate, "rejected")
                   /\ UNCHANGED <<free, created, running, queue>>
                   /\ events' = Append(events, <<"failed">>)
                   /\ delivered' = Append(delivered, <<QueueLimitError>>)
    /\ UNCHANGED <<validatorVars, managerVars, messageVars, limitVars,
                   toolVars, lifeVars>>

\* the query of call c ends on its connection, which goes to the first waiting
\* call or back to the idle ones; how is "completed" or "failed"
QueryEnds(c, how) ==
    /\ c \in Executing
    /\ LET k == CHOOSE k \in ConnectionsOf(c) : TRUE
       IN  IF queue # <<>>
           THEN LET next == Dequeue(queue)
                IN  /\ queue' = next.rest
                    /\ qstate' = [qstate EXCEPT ![c] = "finished", ![next.call] = "executing"]
                    /\ running' = [running EXCEPT ![k] = (@ \ {c}) \cup {next.call}]
                    /\ UNCHANGED free
           ELSE /\ free' = free \cup {k}
                /\ running' = [running EXCEPT ![k] = @ \ {c}]
                /\ qstate' = [qstate EXCEPT ![c] = "finished"]
                /\ UNCHANGED queue
    /\ events' = [events EXCEPT ![c] = Append(@, how)]
    /\ delivered' =
           [delivered EXCEPT ![c] =
               Settle(@, IF how = "completed" THEN Returned ELSE NoSuchTableError)]
    /\ UNCHANGED <<issued, timer, submitted, created>>
    /\ UNCHANGED <<validatorVars, managerVars, messageVars, limitVars,
                   toolVars, lifeVars>>

\* the query of every second call names a table the database does not have
MissingTable(c) == c % 2 = 0

PoolQueryCompletes(c) == ~MissingTable(c) /\ QueryEnds(c, "completed")
PoolQueryFails(c) == MissingTable(c) /\ QueryEnds(c, "failed")

\* the mutant: executeQuery awaits the query alone
AwaitQueryOnly(got) == got
\* await Promise.race([queryPromise, timeoutPromise]) when the timeout promise
\* rejects
RaceOnTimeout(got) == Settle(got, TimeoutError)

\* the setTimeout callback of call c runs, TIMEOUT_MS after the call was made:
\* the timers have the same delay, so they run in the order they were set
TimerRuns(c) ==
    /\ c \in CallIds
    /\ timer[c] = "armed"
    /\ \A b \in 1..(c - 1) : timer[b] = "fired"
    /\ timer' = [timer EXCEPT ![c] = "fired"]
    /\ events' = [events EXCEPT ![c] = Append(@, "timeout")]
    /\ delivered' = [delivered EXCEPT ![c] = RaceOnTimeout(@)]
    /\ free' = free \cup ReleasedOnTimeout(c)
    /\ UNCHANGED <<issued, qstate, submitted, queue, created, running>>
    /\ UNCHANGED <<validatorVars, managerVars, messageVars, limitVars,
                   toolVars, lifeVars>>

\* the timers that run are those of the first MaxTimeouts calls
PoolTimeoutFires(c) == c <= MaxTimeouts /\ TimerRuns(c)

NextPool ==
    \/ CallExecuteQuery
    \/ \E c \in 1..MaxCalls : PoolQueryCompletes(c)
    \/ \E c \in 1..MaxCalls : PoolQueryFails(c)
    \/ \E c \in 1..MaxCalls : PoolTimeoutFires(c)

SpecPool == InitPool /\ [][NextPool]_vars

(***************************************************************************)
(* Properties of concurrent executeQuery calls, under SpecPool.            *)
(***************************************************************************)
FirstEvent(c) == Head(events[c])
Settled(c) == events[c] # <<>>

\* C11: executeQuery races the query against a deadline of 30 seconds: when
\* the timer runs before the query has ended, the call fails with the message
\* 'Query exceeded 30 second timeout limit'; when the query completes first,
\* the call returns the query's result and no timeout error.
C11_DeadlineRace ==
    \A c \in CallIds :
        /\ (Settled(c) /\ FirstEvent(c) = "timeout")
               => delivered[c] =
                      <<[kind |-> "error",
                         message |->
                             <<"Q","u","e","r","y"," ","e","x","c","e","e","d","e","d"," ",
                               "3","0"," ","s","e","c","o","n","d"," ",
                               "t","i","m","e","o","u","t"," ","l","i","m","i","t">>]>>
        /\ (Settled(c) /\ FirstEvent(c) = "completed")
               => delivered[c] = <<Returned>>

C11_Witness ==
    /\ issued >= 2
    /\ events[1] = <<"completed", "timeout">>
    /\ events[2] = <<"timeout">>
    /\ qstate[2] = "executing"
    /\ delivered[1] = <<Returned>>
    /\ delivered[2] = <<TimeoutError>>

\* C12: once the timer of a call has run, the call's query is no longer
\* running and holds neither a connection of the pool nor a place in its queue.
C12_TimedOutQueryCancelled ==
    \A c \in CallIds :
        timer[c] = "fired"
            => /\ qstate[c] \notin {"executing", "queued"}
               /\ ConnectionsOf(c) = {}

\* C13: a connection that still runs the query of a call whose timer has run is
\* not handed to another call: every connection runs at most one query, and a
\* connection that runs a query is not among the idle ones.
C13_OneQueryPerConnection ==
    \A k \in 1..created :
        /\ Cardinality(running[k]) <= 1
        /\ running[k] # {} => k \notin free

C13_Witness ==
    /\ issued >= 6
    /\ timer[1] = "fired"
    /\ qstate[1] = "executing"
    /\ qstate[6] = "executing"
    /\ ConnectionsOf(1) # ConnectionsOf(6)

\* C14: at most 5 queries are in flight on the pool; a call made when 5 are in
\* flight waits, the waiting calls are served in the order they were made, and
\* no call is rejected because the queue is full.
C14_BoundedFifoPool ==
    /\ Cardinality(Executing) <= 5
    /\ \A c \in CallIds : qstate[c] # "rejected"
    /\ \A c \in CallIds : qstate[c] = "queued" => Cardinality(Executing) = 5
    /\ \A b, c \in CallIds : (b < c /\ qstate[b] = "queued") => qstate[c] = "queued"
    /\ queue = SelectSeq([c \in CallIds |-> c], LAMBDA c : qstate[c] = "queued")

C14_Witness ==
    /\ issued = 7
    /\ Cardinality(Executing) = 5
    /\ qstate[6] = "executing"
    /\ queue = <<7>>

\* C15: a call hands its query to the pool at most once and gives its caller
\* exactly one outcome; what settles after that outcome (the timer after the
\* query, or the query after the timer) neither changes it nor adds a second.
C15_OneOutcomeNoRetry ==
    [][\A c \in CallIds :
           /\ submitted'[c] = 1
           /\ Len(delivered'[c]) <= 1
           /\ Settled(c) => (Len(delivered[c]) = 1 /\ delivered'[c] = delivered[c])]_vars

C15_Witness ==
    /\ issued >= 2
    /\ events[1] = <<"timeout", "completed">>
    /\ delivered[1] = <<TimeoutError>>
    /\ events[2] = <<"failed", "timeout">>
    /\ delivered[2] = <<NoSuchTableError>>
    /\ submitted[1] = 1

(***************************************************************************)
(* sanitizeMessage applied to a text, and to its own result.               *)
(***************************************************************************)
\* the longest free message, in pieces
MaxParts == 4

\* messages of the driver, and texts with credentials in the shapes the
\* patterns are written for
MsgAccessDenied ==
    <<"A","c","c","e","s","s"," ","d","e","n","i","e","d"," ","f","o","r"," ","u","s","e","r",
      " ","'","r","o","o","t","'","@","'","d","b","1","'"," ","(","u","s","i","n","g"," ",
      "p","a","s","s","w","o","r","d",":"," ","Y","E","S",")">>
MsgConnectionRefused ==
    <<"c","o","n","n","e","c","t"," ","E","C","O","N","N","R","E","F","U","S","E","D"," ",
      "1","0",".","0",".","0",".","5",":","3","3","0","6">>
MsgPasswordPair ==
    <<"p","a","s","s","w","o","r","d","=","s","e","c","r","e","t","1","2","3">>
MsgTwoTokens ==
    <<"t","o","k","e","n","=","a","b","c"," ","t","o","k","e","n","=","d","e","f">>
MsgConnectionUrl ==
    <<"m","y","s","q","l",":","/","/","r","o","o","t",":","s","3","c","r","e","t","@",
      "d","b","1",".","e","x","a","m","p","l","e",".","c","o","m",":","3","3","0","6","/",
      "c","r","m">>
MsgUrlOnSecondLine ==
    <<"m","y","s","q","l",":","/","/","a",":","b","\n",
      "m","y","s","q","l",":","/","/","u",":","p","@","h">>
MsgQuotedPwd == <<"p","w","d",":"," ","\"","x","\""," ","k","e","y","=">>
\* two connection URLs on three lines: the first has no '@' on its line, the
\* user name of the second ends its line
MsgUrlInUrl ==
    <<"m","y","s","q","l",":","/","/","m","y","s","q","l",":","/","/","\n",
      ":","a","@","a","\n",":","a","@","a">>

ScenarioMessages ==
    {MsgAccessDenied, MsgConnectionRefused, MsgPasswordPair, MsgTwoTokens,
     MsgConnectionUrl, MsgUrlOnSecondLine, MsgQuotedPwd, MsgUrlInUrl,
     NoSuchTableMessage}

\* the pieces of the free messages; one is a line end followed by ':a@a', the
\* password and host of a connection URL whose user name ends the line before
MessagePieces ==
    {<<"k","e","y","=">>, <<"P","W","D",":","x">>, <<"a">>, <<"'">>, <<" ">>,
     <<":">>, <<"m","y","s","q","l",":","/","/">>, <<"\n",":","a","@","a">>}

FreeMessages ==
    UNION {{Flatten(ps) : ps \in [1..n -> MessagePieces]} : n \in 0..MaxParts}

MessageTexts == ScenarioMessages \cup FreeMessages

InitSanitize ==
    /\ vtext = QEmpty
    /\ verdict = NoVerdict
    /\ pools = {}
    /\ ManagerIdle
    /\ PoolIdle
    /\ LimitsIdle
    /\ ToolsIdle
    /\ LifeIdle
    /\ original \in MessageTexts
    /\ dbconfig = <<>>
    /\ failedAt = "none"
    /\ produced = <<>>

\* sanitizeMessage(original)
Sanitize ==
    /\ produced = <<>>
    /\ produced' = <<sanitizeMessage(original)>>
    /\ UNCHANGED <<original, dbconfig, failedAt>>
    /\ UNCHANGED <<validatorVars, managerVars, poolVars, limitVars,
                   toolVars, lifeVars>>

\* sanitizeMessage applied to what sanitizeMessage returned
SanitizeAgain ==
    /\ Len(produced) = 1
    /\ produced' = Append(produced, sanitizeMessage(produced[1]))
    /\ UNCHANGED <<original, dbconfig, failedAt>>
    /\ UNCHANGED <<validatorVars, managerVars, poolVars, limitVars,
                   toolVars, lifeVars>>

NextSanitize == Sanitize \/ SanitizeAgain

SpecSanitize == InitSanitize /\ [][NextSanitize]_vars

\* C16: sanitizeMessage is idempotent: sanitizing a sanitized text gives that
\* text back, the six patterns being applied once each, in their order, every
\* match replaced by '[REDACTED]'.
C16_SanitizeIdempotent ==
    Len(produced) = 2
        => /\ produced[1] = sanitizeMessage(original)
           /\ produced[2] = produced[1]


(***************************************************************************)
(* testConnection and createConnectionErrorMessage.                        *)
(***************************************************************************)
NameCrm == <<"c","r","m">>
NameOperation == <<"o","p","e","r","a","t","i","o","n">>
HostDb1 == <<"d","b","1">>
HostLocalhost == <<"l","o","c","a","l","h","o","s","t">>
SchemaCrmProd == <<"c","r","m","_","p","r","o","d">>
UserRoot == <<"r","o","o","t">>
PasswordSecret123 == <<"s","e","c","r","e","t","1","2","3">>
PasswordS3cret == <<"s","3","c","r","e","t">>

\* the passwords of the configs: one is also the name of a database
Passwords == {PasswordSecret123, PasswordS3cret, NameCrm}

\* DatabaseConfig
Configs ==
    [name : {NameCrm, NameOperation},
     host : {HostDb1, HostLocalhost},
     port : {3306, 3307},
     user : {UserRoot},
     password : Passwords,
     database : {NameCrm, SchemaCrmProd}]

\* the messages of the errors pool.getConnection rejects with
ConnectionErrors ==
    {MsgAccessDenied, MsgConnectionRefused, MsgPasswordPair, MsgConnectionUrl,
     NoSuchTableMessage}

ConnectionFailedPrefix ==
    <<"D","a","t","a","b","a","s","e"," ","c","o","n","n","e","c","t","i","o","n"," ",
      "f","a","i","l","e","d",":"," ">>

\* the mutant: the details are the connection options, password included
createConnectionErrorMessageFromOptions(config, error) ==
    LET details ==
            config.user \o <<":">> \o config.password \o <<"@">> \o config.host
                \o <<":">> \o NumberToString(config.port) \o <<"/">> \o config.database
    IN  ConnectionFailedPrefix \o details \o <<" ","-"," ">> \o sanitizeMessage(error)

\* createConnectionErrorMessage(config, error), error being error.message
createConnectionErrorMessage(config, error) ==
    LET safeDetails ==
            config.name \o <<"@">> \o config.host \o <<":">>
                \o NumberToString(config.port) \o <<"/">> \o config.database
        sanitizedError == sanitizeMessage(error)
    IN  ConnectionFailedPrefix \o safeDetails \o <<" ","-"," ">> \o sanitizedError

\* the manager is initialized with the config; original is the message of the
\* error pool.getConnection will reject with, if it rejects
InitConnect ==
    /\ vtext = QEmpty
    /\ verdict = NoVerdict
    /\ pools = Databases
    /\ ManagerIdle
    /\ PoolIdle
    /\ LimitsIdle
    /\ ToolsIdle
    /\ LifeIdle
    /\ original \in ConnectionErrors
    /\ dbconfig \in Configs
    /\ failedAt = "none"
    /\ produced = <<>>

\* testConnection: pool.getConnection resolves, the connection is released
TestConnectionSucceeds ==
    /\ failedAt = "none"
    /\ failedAt' = "connected"
    /\ UNCHANGED <<original, dbconfig, produced>>
    /\ UNCHANGED <<validatorVars, managerVars, poolVars, limitVars,
                   toolVars, lifeVars>>

\* testConnection: pool.getConnection rejects, the catch throws
TestConnectionFails ==
    /\ failedAt = "none"
    /\ failedAt' = "connection"
    /\ produced' =
           IF dbconfig # Undefined
           THEN <<createConnectionErrorMessage(dbconfig, original)>>
           ELSE <<ConnectionFailedPrefix \o NameCrm>>
    /\ UNCHANGED <<original, dbconfig>>
    /\ UNCHANGED <<validatorVars, managerVars, poolVars, limitVars,
                   toolVars, lifeVars>>

NextConnect == TestConnectionSucceeds \/ TestConnectionFails

SpecConnect == InitConnect /\ [][NextConnect]_vars

\* sub occurs in text
Contains(text, sub) == \E i \in 1..Len(text) : StartsAt(text, i, sub)

ErrorText(reason) ==
    CASE reason = ReasonEmpty ->
             <<"q","u","e","r","y"," ","i","s"," ","e","m","p","t","y">>
      [] reason = ReasonNotReadOnly ->
             <<"o","n","l","y"," ","r","e","a","d","-","o","n","l","y"," ",
               "s","t","a","t","e","m","e","n","t","s"," ","a","r","e"," ",
               "a","l","l","o","w","e","d">>
      [] reason = ReasonForbidden ->
             <<"q","u","e","r","y"," ","c","o","n","t","a","i","n","s"," ","a"," ",
               "f","o","r","b","i","d","d","e","n"," ","k","e","y","w","o","r","d">>
      [] OTHER -> <<"I","n","v","a","l","i","d"," ","q","u","e","r","y">>

\* `Connection pool not initialized for database: ${database}`
PoolNotInitializedMessage(database) ==
    <<"C","o","n","n","e","c","t","i","o","n"," ","p","o","o","l"," ","n","o","t"," ",
      "i","n","i","t","i","a","l","i","z","e","d"," ","f","o","r"," ",
      "d","a","t","a","b","a","s","e",":"," ">> \o database

\* the database argument of a call: the tools pass args.database on with a type
\* assertion, so it is any text the request holds
NameKeyAbc == <<"k","e","y","=","a","b","c">>
DatabaseArgs == {NameCrm, NameOperation, NameKeyAbc}

\* this.pools.get(database) is undefined
HasNoPool(database) == pools = {} \/ database \notin {NameCrm, NameOperation}

\* original is the message of the error pool.execute will reject with, if it
\* rejects; the manager is initialized or it is not
InitErrors ==
    /\ vtext = QEmpty
    /\ verdict = NoVerdict
    /\ pools \in {{}, Databases}
    /\ ManagerIdle
    /\ PoolIdle
    /\ LimitsIdle
    /\ ToolsIdle
    /\ LifeIdle
    /\ original \in MessageTexts
    /\ dbconfig = <<>>
    /\ failedAt = "none"
    /\ produced = <<>>

\* executeQuery: validate rejects the query, line 176 throws
ThrowInvalidQuery(query) ==
    /\ failedAt = "none"
    /\ ~validate(query).valid
    /\ failedAt' = "validation"
    /\ original' = ErrorText(IF validate(query).error # NoReason
                             THEN validate(query).error ELSE MsgInvalidQuery)
    /\ produced' = <<original'>>
    /\ UNCHANGED dbconfig
    /\ UNCHANGED <<validatorVars, managerVars, poolVars, limitVars,
                   toolVars, lifeVars>>

\* executeQuery: getPool throws
ThrowPoolNotInitialized(database) ==
    /\ failedAt = "none"
    /\ HasNoPool(database)
    /\ failedAt' = "getPool"
    /\ original' = PoolNotInitializedMessage(database)
    /\ produced' = <<original'>>
    /\ UNCHANGED dbconfig
    /\ UNCHANGED <<validatorVars, managerVars, poolVars, limitVars,
                   toolVars, lifeVars>>

\* executeQuery: the timeout wins the race, the catch throws
ThrowTimeout ==
    /\ failedAt = "none"
    /\ pools # {}
    /\ failedAt' = "timeout"
    /\ original' = TimeoutMessage
    /\ produced' = <<sanitizeMessage(original')>>
    /\ UNCHANGED dbconfig
    /\ UNCHANGED <<validatorVars, managerVars, poolVars, limitVars,
                   toolVars, lifeVars>>

\* executeQuery: pool.execute rejects (no connection, or the database fails
\* the query), the catch throws
ThrowDatabaseError ==
    /\ failedAt = "none"
    /\ pools # {}
    /\ failedAt' = "execute"
    /\ produced' = <<sanitizeMessage(original)>>
    /\ UNCHANGED <<original, dbconfig>>
    /\ UNCHANGED <<validatorVars, managerVars, poolVars, limitVars,
                   toolVars, lifeVars>>

NextErrors ==
    \/ \E query \in Queries : ThrowInvalidQuery(query)
    \/ \E database \in DatabaseArgs : ThrowPoolNotInitialized(database)
    \/ ThrowTimeout
    \/ ThrowDatabaseError

SpecErrors == InitErrors /\ [][NextErrors]_vars

\* C18: whatever step of executeQuery fails (validation, getPool, the
\* connection, the timeout, the database), the message that reaches the caller
\* is sanitizeMessage of the original message and has no match of a redaction
\* pattern in it.
C18_ErrorsPassThroughSanitizer ==
    failedAt \in {"validation", "getPool", "timeout", "execute"}
        => /\ produced[1] = sanitizeMessage(original)
           /\ ~MatchesSensitivePattern(produced[1])

(***************************************************************************)
(* enforceRowLimit (preview_data) and enforceQueryLimit (run_query).  A    *)
(* JavaScript number n is written as the integer 2n, its halves, so that   *)
(* the limits of the model are the integers and the fractions between      *)
(* them; an absent limit is undefined or null.                             *)
(***************************************************************************)
\* how far around each threshold the requested limits go, in halves
Spread == 2

\* LIMITS.PREVIEW_DEFAULT, LIMITS.PREVIEW_MAX, LIMITS.QUERY_MAX
PREVIEW_DEFAULT == 10
PREVIEW_MAX == 100
QUERY_MAX == 5000

Number(n) == [tag |-> "number", halves |-> 2 * n]
Halves(h) == [tag |-> "number", halves |-> h]
UndefinedLimit == [tag |-> "undefined", halves |-> 0]
NullLimit == [tag |-> "null", halves |-> 0]
IsAbsent(l) == l.tag \in {"undefined", "null"}
\* Number.isInteger
IsInteger(l) == l.tag = "number" /\ l.halves % 2 = 0

\* the limits a tool call asks for: absent, around 0 and 1, around each
\* default and maximum, far below and far above
Thresholds == {0, 1, PREVIEW_DEFAULT, PREVIEW_MAX, QUERY_DEFAULT, QUERY_MAX}
RequestedLimits ==
    {UndefinedLimit, NullLimit, Number(0 - 1000), Number(150), Number(50000)}
        \cup {Halves(h) : h \in UNION {(2 * t - Spread)..(2 * t + Spread) : t \in Thresholds}}

\* the mutant: a limit above the maximum gives the default
enforceRowLimitDefaultAbove(limit) ==
    IF IsAbsent(limit) THEN Number(PREVIEW_DEFAULT)
    ELSE IF limit.halves < 2 * 1 THEN Number(PREVIEW_DEFAULT)
    ELSE IF limit.halves > 2 * PREVIEW_MAX THEN Number(PREVIEW_DEFAULT)
    ELSE limit

\* enforceRowLimit(requestedLimit)
enforceRowLimit(limit) ==
    IF IsAbsent(limit) THEN Number(PREVIEW_DEFAULT)
    ELSE IF limit.halves < 2 * 1 THEN Number(PREVIEW_DEFAULT)
    ELSE IF limit.halves > 2 * PREVIEW_MAX THEN Number(PREVIEW_MAX)
    ELSE limit

\* the mutant: a limit above the maximum gives the default
enforceQueryLimitDefaultAbove(limit) ==
    IF IsAbsent(limit) THEN Number(QUERY_DEFAULT)
    ELSE IF limit.halves < 2 * 1 THEN Number(QUERY_DEFAULT)
    ELSE IF limit.halves > 2 * QUERY_MAX THEN Number(QUERY_DEFAULT)
    ELSE limit

\* enforceQueryLimit(requestedLimit)
enforceQueryLimit(limit) ==
    IF IsAbsent(limit) THEN Number(QUERY_DEFAULT)
    ELSE IF limit.halves < 2 * 1 THEN Number(QUERY_DEFAULT)
    ELSE IF limit.halves > 2 * QUERY_MAX THEN Number(QUERY_MAX)
    ELSE limit

InitLimits ==
    /\ vtext = QEmpty
    /\ verdict = NoVerdict
    /\ pools = {}
    /\ ManagerIdle
    /\ PoolIdle
    /\ MessagesIdle
    /\ ToolsIdle
    /\ LifeIdle
    /\ requestedLimit \in RequestedLimits
    /\ enforced = [row |-> <<>>, query |-> <<>>]

\* previewData: const limit = enforceRowLimit(input.limit)
EnforceRowLimit ==
    /\ enforced.row = <<>>
    /\ enforced' = [enforced EXCEPT !.row = <<enforceRowLimit(requestedLimit)>>]
    /\ UNCHANGED requestedLimit
    /\ UNCHANGED <<validatorVars, managerVars, poolVars, messageVars,
                   toolVars, lifeVars>>

\* runQuery: const limit = enforceQueryLimit(input.limit)
EnforceQueryLimit ==
    /\ enforced.query = <<>>
    /\ enforced' = [enforced EXCEPT !.query = <<enforceQueryLimit(requestedLimit)>>]
    /\ UNCHANGED requestedLimit
    /\ UNCHANGED <<validatorVars, managerVars, poolVars, messageVars,
                   toolVars, lifeVars>>

NextLimits == EnforceRowLimit \/ EnforceQueryLimit

SpecLimits == InitLimits /\ [][NextLimits]_vars

\* the number lies in lo..hi
Within(l, lo, hi) == l.tag = "number" /\ 2 * lo <= l.halves /\ l.halves <= 2 * hi
OutOfRange(l, lo, hi) == l.tag = "number" /\ ~Within(l, lo, hi)

\* C19, as stated: enforceRowLimit(L) is an integer in 1..100; an L within
\* 1..100 is returned unchanged; an out-of-range or absent L gives 10.
C19_RowLimitDefaultWhenOutOfRange ==
    enforced.row # <<>>
        => LET r == enforced.row[1]
           IN  /\ IsInteger(r)
               /\ Within(r, 1, 100)
               /\ Within(requestedLimit, 1, 100) => r = requestedLimit
               /\ (IsAbsent(requestedLimit) \/ OutOfRange(requestedLimit, 1, 100))
                      => r = Number(10)

\* C19, amended: enforceRowLimit(L) lies in 1..100; an L within 1..100 is
\* returned unchanged; an absent L and an L below 1 give 10; an L above 100
\* gives 100; the result is an integer when L is an integer or absent.
C19_RowLimitCappedAbove ==
    enforced.row # <<>>
        => LET r == enforced.row[1]
           IN  /\ Within(r, 1, 100)
               /\ Within(requestedLimit, 1, 100) => r = requestedLimit
               /\ (IsAbsent(requestedLimit) \/ requestedLimit.halves < 2) => r = Number(10)
               /\ (~IsAbsent(requestedLimit) /\ requestedLimit.halves > 200) => r = Number(100)
               /\ (IsAbsent(requestedLimit) \/ IsInteger(requestedLimit)) => IsInteger(r)

C19_Witness ==
    /\ requestedLimit = Number(150)
    /\ enforced.row = <<Number(100)>>

\* C20, as stated: enforceQueryLimit(L) is a positive integer in 1..5000; an L
\* within 1..5000 is returned unchanged; an out-of-range or absent L gives 1000.
C20_QueryLimitDefaultWhenOutOfRange ==
    enforced.query # <<>>
        => LET r == enforced.query[1]
           IN  /\ IsInteger(r)
               /\ Within(r, 1, 5000)
               /\ Within(requestedLimit, 1, 5000) => r = requestedLimit
               /\ (IsAbsent(requestedLimit) \/ OutOfRange(requestedLimit, 1, 5000))
                      => r = Number(1000)

\* C20, amended: enforceQueryLimit(L) lies in 1..5000; an L within 1..5000 is
\* returned unchanged; an absent L and an L below 1 give 1000; an L above 5000
\* gives 5000; the result is an integer when L is an integer or absent.
C20_QueryLimitCappedAbove ==
    enforced.query # <<>>
        => LET r == enforced.query[1]
           IN  /\ Within(r, 1, 5000)
               /\ Within(requestedLimit, 1, 5000) => r = requestedLimit
               /\ (IsAbsent(requestedLimit) \/ requestedLimit.halves < 2) => r = Number(1000)
               /\ (~IsAbsent(requestedLimit) /\ requestedLimit.halves > 10000) => r = Number(5000)
               /\ (IsAbsent(requestedLimit) \/ IsInteger(requestedLimit)) => IsInteger(r)

C20_Witness ==
    /\ requestedLimit = Number(50000)
    /\ enforced.query = <<Number(5000)>>


(***************************************************************************)
(* preview_data: truncation of long text fields.                           *)
(***************************************************************************)

\* the longest text handed to truncateText
MaxText == 204

\* LIMITS.TEXT_TRUNCATE
TEXT_TRUNCATE == 200

\* a JavaScript value: typeof value, and the text, number or boolean it holds
StringValue(text) == [type |-> "string", text |-> text, num |-> 0, flag |-> FALSE]
NumberValue(n) == [type |-> "number", text |-> <<>>, num |-> n, flag |-> FALSE]
BooleanValue(b) == [type |-> "boolean", text |-> <<>>, num |-> 0, flag |-> b]
NullValue == [type |-> "object", text |-> <<>>, num |-> 0, flag |-> FALSE]
UndefinedValue == [type |-> "undefined", text |-> <<>>, num |-> 0, flag |-> FALSE]

Ellipsis == <<".", ".", ".">>

\* String.prototype.substring(start, end), positions counted from 0
substring(s, start, end) == SubSeq(s, Min(start, Len(s)) + 1, Min(end, Len(s)))

\* String.prototype.endsWith
endsWith(s, suffix) ==
    /\ Len(s) >= Len(suffix)
    /\ SubSeq(s, Len(s) - Len(suffix) + 1, Len(s)) = suffix

\* truncateText with value.length >= LIMITS.TEXT_TRUNCATE in place of >
truncateTextAtLimit(value) ==
    IF value.type # "string"
    THEN value
    ELSE IF Len(value.text) >= TEXT_TRUNCATE
         THEN StringValue(substring(value.text, 0, TEXT_TRUNCATE) \o Ellipsis)
         ELSE value

truncateText(value) ==
    IF value.type # "string"
    THEN value
    ELSE IF Len(value.text) > TEXT_TRUNCATE
         THEN StringValue(substring(value.text, 0, TEXT_TRUNCATE) \o Ellipsis)
         ELSE value

\* isTruncated(original, truncated)
isTruncated(orig, truncated) ==
    /\ orig.type = "string"
    /\ truncated.type = "string"
    /\ Len(orig.text) > TEXT_TRUNCATE
    /\ endsWith(truncated.text, Ellipsis)

\* the texts of a column: of every length up to MaxText, made of one letter,
\* of dots only, or of a repeated "ab."
TextPatterns == {<<"a">>, <<".">>, <<"a", "b", ".">>}
Repeat(pattern, n) == [i \in 1..n |-> pattern[((i - 1) % Len(pattern)) + 1]]
ColumnTexts == {Repeat(p, n) : p \in TextPatterns, n \in 0..MaxText}
ColumnValues ==
    {StringValue(t) : t \in ColumnTexts}
        \cup {NumberValue(n) : n \in {-1, 0, 200, 201}}
        \cup {BooleanValue(b) : b \in BOOLEAN}
        \cup {NullValue, UndefinedValue}

InitTruncate ==
    /\ vtext = QEmpty
    /\ verdict = NoVerdict
    /\ pools = {}
    /\ ManagerIdle
    /\ PoolIdle
    /\ MessagesIdle
    /\ LimitsIdle
    /\ LifeIdle
    /\ request \in ColumnValues
    /\ response = <<>>
    /\ catalog = <<>>

\* previewData: processedRow[key] = truncateText(value)
TruncateText ==
    /\ response = <<>>
    /\ response' = <<truncateText(request)>>
    /\ UNCHANGED <<validatorVars, managerVars, poolVars, messageVars, limitVars,
                   request, catalog, lifeVars>>

NextTruncate == TruncateText

SpecTruncate == InitTruncate /\ [][NextTruncate]_vars

\* C21: truncateText turns a string longer than 200 characters into its
\* first 200 characters followed by '...' (203 characters in all), returns a
\* string of at most 200 characters (the empty string and a string of
\* exactly 200 included) as it is, and returns every value that is not a
\* string unchanged.
C21_TruncateText ==
    response # <<>> =>
        LET s == request
            r == response[1]
        IN  /\ (s.type = "string" /\ Len(s.text) > 200) =>
                /\ r.type = "string"
                /\ Len(r.text) = 203
                /\ endsWith(r.text, <<".", ".", ".">>)
                /\ SubSeq(r.text, 1, 200) = SubSeq(s.text, 1, 200)
            /\ (s.type = "string" /\ Len(s.text) <= 200) => r = s
            /\ s.type # "string" => r = s

\* a text of 201 characters was truncated to 203
C21_Witness ==
    /\ response # <<>>
    /\ request.type = "string"
    /\ Len(request.text) = 201
    /\ Len(response[1].text) = 203


(***************************************************************************)
(* show_relations: the foreign keys of a table and their classification.   *)
(***************************************************************************)

DEFAULT_DATABASE == "crm"

\* the rows of INFORMATION_SCHEMA.KEY_COLUMN_USAGE that name a referenced
\* table, in the order the database reports them
KeyColumnUsage ==
    << [constraint_name |-> "fk_orders_user", table_name |-> "orders",
        column_name |-> "user_id", referenced_table |-> "users",
        referenced_column |-> "id"],
       [constraint_name |-> "fk_profiles_user", table_name |-> "profiles",
        column_name |-> "user_id", referenced_table |-> "users",
        referenced_column |-> "id"],
       [constraint_name |-> "fk_users_manager", table_name |-> "users",
        column_name |-> "manager_id", referenced_table |-> "users",
        referenced_column |-> "id"] >>

\* the indexes a schema may have on the columns of the foreign keys: a unique
\* index on one column, a unique index on two columns, a non-unique index
IndexChoices ==
    { [index_name |-> "uq_profiles_user", table_name |-> "profiles",
       columns |-> {"user_id"}, non_unique |-> 0],
      [index_name |-> "uq_orders_user_no", table_name |-> "orders",
       columns |-> {"user_id", "order_no"}, non_unique |-> 0],
      [index_name |-> "ix_orders_user", table_name |-> "orders",
       columns |-> {"user_id"}, non_unique |-> 1] }

RelationTables == {"orders", "profiles", "users", "missing"}
SourceColumns == {<<KeyColumnUsage[i].table_name, KeyColumnUsage[i].column_name>> :
                    i \in 1..Len(KeyColumnUsage)}

\* how an executeQuery call of the tool ends: with rows, or with one of the
\* errors executeQuery throws
QueryOutcomes == {"ok", "connection", "timeout", "database"}

\* a schema and what happens to the queries made on it: which foreign keys and
\* indexes exist, which of the two listing queries fails (if any), and how the
\* uniqueness lookup of each source column ends
Schemas ==
    [foreignKeys : SUBSET (1..Len(KeyColumnUsage)),
     indexes : SUBSET IndexChoices,
     listing : {"ok", "outgoing fails", "incoming fails"},
     lookup : [SourceColumns -> QueryOutcomes]]

\* SELECT COUNT(*) as unique_count FROM INFORMATION_SCHEMA.STATISTICS
\* WHERE TABLE_NAME = ? AND COLUMN_NAME = ? AND NON_UNIQUE = 0
\* (STATISTICS holds one row per column of each index)
UniqueCount(schema, tableName, columnName) ==
    Cardinality({ix \in schema.indexes :
                    /\ ix.table_name = tableName
                    /\ columnName \in ix.columns
                    /\ ix.non_unique = 0})

\* determineRelationType with the failure of the lookup reported, not caught
determineRelationTypeUncaught(schema, tableName, columnName) ==
    IF schema.lookup[<<tableName, columnName>>] # "ok"
    THEN schema.lookup[<<tableName, columnName>>]
    ELSE IF UniqueCount(schema, tableName, columnName) > 0
         THEN "one-to-one"
         ELSE "one-to-many"

determineRelationType(schema, tableName, columnName) ==
    IF schema.lookup[<<tableName, columnName>>] = "ok"
    THEN IF UniqueCount(schema, tableName, columnName) > 0
         THEN "one-to-one"
         ELSE "one-to-many"
    ELSE "one-to-many"

\* the rows of a listing query, in the order of KeyColumnUsage
ForeignKeyRows(schema, Selected(_)) ==
    LET Present(i) == i \in schema.foreignKeys /\ Selected(KeyColumnUsage[i])
        RECURSIVE From(_)
        From(i) ==
            IF i > Len(KeyColumnUsage) THEN <<>>
            ELSE IF Present(i) THEN <<KeyColumnUsage[i]>> \o From(i + 1)
            ELSE From(i + 1)
    IN  From(1)

getOutgoingRelations(schema, tableName) ==
    LET Outgoing(row) == row.table_name = tableName
        rows == ForeignKeyRows(schema, Outgoing)
    IN  [i \in 1..Len(rows) |->
            [table |-> rows[i].referenced_table,
             column |-> rows[i].column_name,
             foreignKey |-> rows[i].constraint_name,
             relationType |->
                 determineRelationType(schema, tableName, rows[i].column_name)]]

getIncomingRelations(schema, tableName) ==
    LET Incoming(row) == row.referenced_table = tableName
        rows == ForeignKeyRows(schema, Incoming)
    IN  [i \in 1..Len(rows) |->
            [table |-> rows[i].table_name,
             column |-> rows[i].column_name,
             foreignKey |-> rows[i].constraint_name,
             relationType |->
                 determineRelationType(schema, rows[i].table_name,
                                       rows[i].column_name)]]

NoRelationshipsMessage(tableName) ==
    <<"No relationships found for table '", tableName, "'">>

\* showRelations(connectionManager, input): the output, or the error of the
\* listing query that failed
showRelations(schema, input) ==
    IF schema.listing # "ok"
    THEN [kind |-> "error", table |-> input.table, referencedBy |-> <<>>,
          references |-> <<>>, message |-> <<schema.listing>>]
    ELSE LET references == getOutgoingRelations(schema, input.table)
             referencedBy == getIncomingRelations(schema, input.table)
         IN  [kind |-> "ok", table |-> input.table,
              referencedBy |-> referencedBy, references |-> references,
              message |-> IF Len(referencedBy) = 0 /\ Len(references) = 0
                          THEN NoRelationshipsMessage(input.table)
                          ELSE <<>>]

InitRelations ==
    /\ vtext = QEmpty
    /\ verdict = NoVerdict
    /\ pools = Databases
    /\ ManagerIdle
    /\ PoolIdle
    /\ MessagesIdle
    /\ LimitsIdle
    /\ LifeIdle
    /\ request \in [database : {DEFAULT_DATABASE}, table : RelationTables]
    /\ response = <<>>
    /\ catalog \in Schemas

ShowRelations ==
    /\ response = <<>>
    /\ response' = <<showRelations(catalog, request)>>
    /\ UNCHANGED <<validatorVars, managerVars, poolVars, messageVars, limitVars,
                   request, catalog, lifeVars>>

NextRelations == ShowRelations

SpecRelations == InitRelations /\ [][NextRelations]_vars

\* the entries of an output, each with the table and column whose uniqueness
\* was looked up for it
RelationEntries(output, tableName) ==
    {[entry |-> output.references[i], sourceTable |-> tableName] :
        i \in 1..Len(output.references)}
    \cup {[entry |-> output.referencedBy[i],
           sourceTable |-> output.referencedBy[i].table] :
            i \in 1..Len(output.referencedBy)}

MaxTables == 12

TOP_TABLES_LIMIT == 10

\* const k = 1024
KiloBytes == 1024

\* A number of bytes, written in base 1024: digit p counts 1024^p bytes.
\* (DATA_LENGTH and INDEX_LENGTH are BIGINT UNSIGNED columns, too wide for the
\* model checker's integers.)
BytePositions == 0..5
ZeroBytes == [p \in BytePositions |-> 0]
\* m * 1024^e bytes, for m < 1024^2
Size(m, e) ==
    [p \in BytePositions |->
        IF p = e THEN m % KiloBytes
        ELSE IF p = e + 1 THEN m \div KiloBytes
        ELSE 0]
BytesGreater(a, b) ==
    \E p \in BytePositions :
        /\ a[p] > b[p]
        /\ \A q \in BytePositions : q > p => a[q] = b[q]
AddBytes(a, b) ==
    LET RECURSIVE Carry(_)
        Carry(p) == IF p = 0 THEN 0
                    ELSE (a[p - 1] + b[p - 1] + Carry(p - 1)) \div KiloBytes
    IN  [p \in BytePositions |-> (a[p] + b[p] + Carry(p)) % KiloBytes]

\* const units = ['B', 'KB', 'MB', 'GB', 'TB']; units[i] beyond the array is
\* undefined, which the template literal prints as 'undefined'
units == << <<"B">>, <<"K", "B">>, <<"M", "B">>, <<"G", "B">>, <<"T", "B">> >>
UnitText(i) ==
    IF i + 1 \in DOMAIN units THEN units[i + 1]
    ELSE <<"u", "n", "d", "e", "f", "i", "n", "e", "d">>

\* Number.prototype.toFixed(decimals) of n / 1024
toFixed(n, decimals) ==
    LET scale == IF decimals = 1 THEN 10 ELSE 100
        rounded == (n * scale + (KiloBytes \div 2)) \div KiloBytes
        fraction == rounded % scale
    IN  NatToString(rounded \div scale) \o <<".">>
            \o (IF decimals = 2 /\ fraction < 10 THEN <<"0">> ELSE <<>>)
            \o NatToString(fraction)

\* formatBytes that prints every size with two decimals and the unit B
formatBytesInBytes(bytes) ==
    IF bytes = ZeroBytes THEN <<"0", " ", "B">>
    ELSE LET i == CHOOSE p \in BytePositions :
                      bytes[p] # 0 /\ \A q \in BytePositions : q > p => bytes[q] = 0
             value == bytes[i] * KiloBytes + (IF i > 0 THEN bytes[i - 1] ELSE 0)
         IN  toFixed(value, 2) \o <<" ">> \o <<"B">>

\* formatBytes(bytes): i = floor(log(bytes) / log(1024)) is the position of the
\* highest digit, value = bytes / 1024^i
formatBytes(bytes) ==
    IF bytes = ZeroBytes THEN <<"0", " ", "B">>
    ELSE LET i == CHOOSE p \in BytePositions :
                      bytes[p] # 0 /\ \A q \in BytePositions : q > p => bytes[q] = 0
             value == bytes[i] * KiloBytes + (IF i > 0 THEN bytes[i - 1] ELSE 0)
             formatted == IF bytes[i] >= 10 THEN toFixed(value, 1)
                          ELSE toFixed(value, 2)
         IN  formatted \o <<" ">> \o UnitText(i)

\* parseSizeToBytes(size): /^([\d.]+)\s*(B|KB|MB|GB|TB)$/, parseFloat of the
\* first group times the unit's multiplier; 0 without a match.  The result
\* is hundredths * 1024^unit / 100.
RECURSIVE NumberEnd(_, _)
NumberEnd(s, i) ==
    IF i <= Len(s) /\ (IsDigit(s[i]) \/ s[i] = ".") THEN NumberEnd(s, i + 1) ELSE i
NoBytes == [hundredths |-> 0, unit |-> 0]
parseFloatHundredths(t) ==
    LET dot == IF \E i \in 1..Len(t) : t[i] = "."
               THEN CHOOSE i \in 1..Len(t) : t[i] = "." /\ \A j \in 1..(i - 1) : t[j] # "."
               ELSE Len(t) + 1
        whole == SubSeq(t, 1, dot - 1)
        rest == SubSeq(t, dot + 1, Len(t))
        digitsEnd == IF \E i \in 1..Len(rest) : ~IsDigit(rest[i])
                     THEN (CHOOSE i \in 1..Len(rest) :
                              ~IsDigit(rest[i]) /\ \A j \in 1..(i - 1) : IsDigit(rest[j])) - 1
                     ELSE Len(rest)
        decimals == SubSeq(rest, 1, Min(digitsEnd, 2))
    IN  ParseNat(whole) * 100
            + (IF Len(decimals) = 0 THEN 0
               ELSE IF Len(decimals) = 1 THEN ParseNat(decimals) * 10
               ELSE ParseNat(decimals))
parseSizeToBytes(size) ==
    LET numberEnd == NumberEnd(size, 1)
        unitAt == FirstNonSpace(size, numberEnd)
        unit == SubSeq(size, unitAt, Len(size))
    IN  IF numberEnd = 1 \/ ~(\E u \in DOMAIN units : units[u] = unit)
        THEN NoBytes
        ELSE [hundredths |-> parseFloatHundredths(SubSeq(size, 1, numberEnd - 1)),
              unit |-> (CHOOSE u \in DOMAIN units : units[u] = unit) - 1]

\* a > b for two results of parseSizeToBytes (hundredths is at most 102400)
ParsedGreater(a, b) ==
    IF a.hundredths = 0 THEN FALSE
    ELSE IF b.hundredths = 0 THEN TRUE
    ELSE IF a.unit >= b.unit + 2 THEN TRUE
    ELSE IF b.unit >= a.unit + 2 THEN FALSE
    ELSE IF a.unit = b.unit + 1 THEN a.hundredths * KiloBytes > b.hundredths
    ELSE IF b.unit = a.unit + 1 THEN a.hundredths > b.hundredths * KiloBytes
    ELSE a.hundredths > b.hundredths

isDescendingByRows(stats) ==
    \A i \in 2..Len(stats) : ~(stats[i].rows > stats[i - 1].rows)

isDescendingBySize(stats) ==
    \A i \in 2..Len(stats) :
        ~ParsedGreater(parseSizeToBytes(stats[i].size),
                       parseSizeToBytes(stats[i - 1].size))

\* what INFORMATION_SCHEMA.TABLES may hold for a table: TABLE_ROWS and
\* DATA_LENGTH + INDEX_LENGTH, each possibly NULL (<<>>)
RowChoices == << <<0>>, <<3>>, <<>>, <<1>>, <<3>> >>
SizeChoices ==
    << <<Size(1023, 0)>>, <<Size(1, 1)>>, <<>>, <<Size(10239, 0)>>,
       <<Size(1536, 2)>>, <<ZeroBytes>>, <<Size(1048575, 0)>>, <<Size(1, 2)>>,
       <<Size(1023, 4)>>, <<Size(10, 1)>>, <<Size(1024, 4)>>, <<Size(1, 0)>>,
       <<Size(5, 3)>> >>

\* the base tables of a schema: n tables whose figures are taken from the
\* choices above, starting at an offset and advancing by a step
BaseTables(n, step, offset) ==
    [t \in 1..n |->
        [table_name |-> t,
         table_rows |-> RowChoices[((t * step + offset) % Len(RowChoices)) + 1],
         bytes |-> SizeChoices[((t * step + offset) % Len(SizeChoices)) + 1]]]
StatsSchemas ==
    {[tables |-> BaseTables(n, step, offset), queries |-> q] :
        n \in 0..MaxTables, step \in {1, 4, 9}, offset \in 0..(Len(SizeChoices) - 1),
        q \in {"ok", "database"}}

\* ORDER BY ... DESC of the database: NULL sorts last, rows with equal keys
\* keep their order
OrderByDesc(tables, Before(_, _)) ==
    LET RECURSIVE Insert(_, _), SortFrom(_)
        Insert(sorted, x) ==
            IF sorted = <<>> THEN <<x>>
            ELSE IF Before(x, Head(sorted)) THEN <<x>> \o sorted
            ELSE <<Head(sorted)>> \o Insert(Tail(sorted), x)
        SortFrom(i) == IF i = 0 THEN <<>> ELSE Insert(SortFrom(i - 1), tables[i])
    IN  SortFrom(Len(tables))
RowsBefore(a, b) ==
    /\ a.table_rows # <<>>
    /\ b.table_rows = <<>> \/ a.table_rows[1] > b.table_rows[1]
BytesBefore(a, b) ==
    /\ a.bytes # <<>>
    /\ b.bytes = <<>> \/ BytesGreater(a.bytes[1], b.bytes[1])

\* COALESCE(x, 0)
CoalesceRows(x) == IF x = <<>> THEN 0 ELSE x[1]
CoalesceBytes(x) == IF x = <<>> THEN ZeroBytes ELSE x[1]

\* result.rows.map(row => ({table, rows, size}))
TableStats(rows) ==
    [i \in 1..Len(rows) |->
        [table |-> rows[i].table_name,
         rows |-> CoalesceRows(rows[i].table_rows),
         size |-> formatBytes(CoalesceBytes(rows[i].bytes))]]

\* ... ORDER BY TABLE_ROWS DESC LIMIT 10, through executeQuery
getLargestTablesByRows(schema) ==
    TableStats(slice0(SubSeq(OrderByDesc(schema.tables, RowsBefore), 1,
                             Min(TOP_TABLES_LIMIT, Len(schema.tables))),
                      QUERY_DEFAULT))

\* ... ORDER BY (DATA_LENGTH + INDEX_LENGTH) DESC LIMIT 10, through executeQuery
getLargestTablesBySize(schema) ==
    TableStats(slice0(SubSeq(OrderByDesc(schema.tables, BytesBefore), 1,
                             Min(TOP_TABLES_LIMIT, Len(schema.tables))),
                      QUERY_DEFAULT))

\* COUNT(*), COALESCE(SUM(TABLE_ROWS), 0), COALESCE(SUM(DATA_LENGTH + INDEX_LENGTH), 0)
getOverallStats(schema) ==
    LET RECURSIVE SumRows(_), SumBytes(_)
        SumRows(i) == IF i = 0 THEN 0
                      ELSE SumRows(i - 1) + CoalesceRows(schema.tables[i].table_rows)
        SumBytes(i) == IF i = 0 THEN ZeroBytes
                       ELSE AddBytes(SumBytes(i - 1),
                                     CoalesceBytes(schema.tables[i].bytes))
    IN  [tableCount |-> Len(schema.tables),
         totalRows |-> SumRows(Len(schema.tables)),
         totalSize |-> formatBytes(SumBytes(Len(schema.tables)))]

dbStats(schema, input) ==
    IF schema.queries # "ok"
    THEN [kind |-> "error", database |-> input.database, tableCount |-> 0,
          totalRows |-> 0, totalSize |-> <<>>, largestByRows |-> <<>>,
          largestBySize |-> <<>>]
    ELSE LET overallStats == getOverallStats(schema)
         IN  [kind |-> "ok", database |-> input.database,
              tableCount |-> overallStats.tableCount,
              totalRows |-> overallStats.totalRows,
              totalSize |-> overallStats.totalSize,
              largestByRows |-> getLargestTablesByRows(schema),
              largestBySize |-> getLargestTablesBySize(schema)]

InitStats ==
    /\ vtext = QEmpty
    /\ verdict = NoVerdict
    /\ pools = Databases
    /\ ManagerIdle
    /\ PoolIdle
    /\ MessagesIdle
    /\ LimitsIdle
    /\ LifeIdle
    /\ request \in [database : Databases]
    /\ response = <<>>
    /\ catalog \in StatsSchemas

DbStats ==
    /\ response = <<>>
    /\ response' = <<dbStats(catalog, request)>>
    /\ UNCHANGED <<validatorVars, managerVars, poolVars, messageVars, limitVars,
                   request, catalog, lifeVars>>

NextStats == DbStats

SpecStats == InitStats /\ [][NextStats]_vars

\* every table of the schema is smaller than 1024^5 bytes
BelowPetabyte ==
    \A t \in DOMAIN catalog.tables :
        catalog.tables[t].bytes # <<>> => catalog.tables[t].bytes[1][5] = 0

TableUsers == <<"u","s","e","r","s">>
TableOrders == <<"o","r","d","e","r","s">>
TableAudit == <<"a","u","d","i","t">>
TableNames == {TableUsers, TableOrders, TableAudit}

\* String.prototype.includes
includes(text, sub) == Contains(text, sub)

\* the message of the server's error 1146
DoesntExist == <<"d","o","e","s","n","'","t"," ","e","x","i","s","t">>
UnknownTable == <<"U","n","k","n","o","w","n"," ","t","a","b","l","e">>
NoSuchTable(database, tableName) ==
    <<"T","a","b","l","e"," ","'">> \o database \o <<".">> \o tableName
        \o <<"'"," ">> \o DoesntExist
\* the message of the server's error 1064
SyntaxErrorMessage ==
    <<"Y","o","u"," ","h","a","v","e"," ","a","n"," ","e","r","r","o","r"," ",
      "i","n"," ","y","o","u","r"," ","S","Q","L"," ","s","y","n","t","a","x">>

\* `Table '${tableName}' does not exist in database '${database}'`
TableDoesNotExistMessage(tableName, database) ==
    <<"T","a","b","l","e"," ","'">> \o tableName
        \o <<"'"," ","d","o","e","s"," ","n","o","t"," ","e","x","i","s","t"," ",
             "i","n"," ","d","a","t","a","b","a","s","e"," ","'">>
        \o database \o <<"'">>

QueryExecutionFailedPrefix ==
    <<"Q","u","e","r","y"," ","e","x","e","c","u","t","i","o","n"," ",
      "f","a","i","l","e","d",":"," ">>

ToolResult(rows, truncated) ==
    [kind |-> "ok", rows |-> rows, truncated |-> truncated, message |-> <<>>]
ToolError(message) ==
    [kind |-> "error", rows |-> <<>>, truncated |-> FALSE, message |-> message]

\* executeQuery(database, query, [], limit) of an initialised manager, for a
\* query on one table: db.tables are the tables that exist, db.matching is
\* the number of rows the query matches
executeQueryOfTool(db, database, tableName, query, limit) ==
    LET validation == validate(query)
        limitOfCall == ResolveLimit(limit)
        queryWithLimit == QueryWithLimit(query, limitOfCall)
    IN  IF ~ValidationPasses(validation) THEN ToolError(ErrorText(validation.error))
        ELSE IF tableName \notin db.tables
             THEN ToolError(sanitizeMessage(NoSuchTable(database, tableName)))
        ELSE IF ~EngineAccepts(queryWithLimit)
             THEN ToolError(sanitizeMessage(SyntaxErrorMessage))
        ELSE LET shaped == ShapeResult(EngineRows(queryWithLimit, db.matching),
                                       limitOfCall)
             IN  ToolResult(shaped.rows, shaped.truncated)

\* buildColumnList(columns); the backquotes around each name are left out
RECURSIVE JoinColumns(_)
JoinColumns(columns) ==
    IF Len(columns) = 1 THEN columns[1]
    ELSE columns[1] \o <<",", " ">> \o JoinColumns(Tail(columns))
buildColumnList(columns) ==
    IF columns = <<>> THEN <<"*">> ELSE JoinColumns(columns)

\* String.prototype.replace(/;/g, '')
RECURSIVE RemoveSemicolons(_)
RemoveSemicolons(s) ==
    IF s = <<>> THEN <<>>
    ELSE (IF Head(s) = ";" THEN <<>> ELSE <<Head(s)>>) \o RemoveSemicolons(Tail(s))

\* sanitizeWhereClause(where): <<>> stands for null
sanitizeWhereClause(where) ==
    IF where = <<>> \/ trim(where) = <<>> THEN <<>>
    ELSE RemoveSemicolons(trim(where))

\* previewData with the row limit left to executeQuery's default
PreviewQueryWithoutLimit(input) ==
    <<"S","E","L","E","C","T"," ">> \o buildColumnList(input.columns)
        \o <<" ","F","R","O","M"," ">> \o input.table
        \o (IF sanitizeWhereClause(input.where) = <<>> THEN <<>>
            ELSE <<" ","W","H","E","R","E"," ">> \o sanitizeWhereClause(input.where))

\* the query previewData builds (the backquotes around the table are left out)
PreviewQuery(input) ==
    PreviewQueryWithoutLimit(input) \o LimitClause
        \o NumberToString(enforceRowLimit(input.limit).halves \div 2)

\* the catch of previewData
PreviewError(message, input) ==
    IF includes(message, DoesntExist) \/ includes(message, UnknownTable)
    THEN ToolError(TableDoesNotExistMessage(input.table, input.database))
    ELSE ToolError(message)

\* previewData(connectionManager, input); truncateText changes no row count
previewData(db, input) ==
    LET result == executeQueryOfTool(db, input.database, input.table,
                                     PreviewQuery(input), Undefined)
    IN  IF result.kind = "error" THEN PreviewError(result.message, input)
        ELSE ToolResult(result.rows, FALSE)

\* describeTable: getColumnInfo returns [] for a table that does not exist
describeTable(db, input) ==
    LET query == <<"D","E","S","C","R","I","B","E"," ">> \o input.table
        result == executeQueryOfTool(db, input.database, input.table, query,
                                     Undefined)
        missing == /\ result.kind = "error"
                   /\ \/ includes(result.message, DoesntExist)
                      \/ includes(result.message, UnknownTable)
    IN  IF result.kind = "error" /\ ~missing THEN ToolError(result.message)
        ELSE IF missing \/ Len(result.rows) = 0
             THEN ToolError(TableDoesNotExistMessage(input.table, input.database))
        ELSE ToolResult(result.rows, FALSE)

\* runQuery(connectionManager, input)
runQuery(db, input) ==
    LET validation == validate(input.query)
        result == executeQueryOfTool(db, input.database, input.table, input.query,
                                     <<enforceQueryLimit(input.limit).halves \div 2>>)
    IN  IF ~validation.valid THEN ToolError(ErrorText(validation.error))
        ELSE IF result.kind = "error"
             THEN ToolError(QueryExecutionFailedPrefix \o result.message)
        ELSE result

\* showRelations for a table without foreign keys: the two queries on
\* INFORMATION_SCHEMA find no row, whether the table exists or not
showRelationsOfTable(db, input) ==
    LET output == showRelations([foreignKeys |-> {}, indexes |-> {},
                                 listing |-> "ok",
                                 lookup |-> [c \in SourceColumns |-> "ok"]], input)
    IN  [kind |-> output.kind, rows |-> <<>>, truncated |-> FALSE,
         message |-> <<"N","o"," ","r","e","l","a","t","i","o","n","s","h","i","p","s"," ",
                       "f","o","u","n","d"," ","f","o","r"," ","t","a","b","l","e"," ","'">>
                         \o output.table \o <<"'">>]

ToolNames == {"preview_data", "describe_table", "run_query", "show_relations"}

\* the calls: a tool, a database and a table, with every other argument absent
\* (run_query gets SELECT * FROM <table>)
TableCalls ==
    {[tool |-> tool, database |-> database, table |-> tableName,
      columns |-> <<>>, where |-> <<>>, limit |-> UndefinedLimit,
      query |-> <<"S","E","L","E","C","T"," ","*"," ","F","R","O","M"," ">> \o tableName] :
        tool \in ToolNames, database \in {NameCrm, NameOperation},
        tableName \in TableNames}

InitTables ==
    /\ vtext = QEmpty
    /\ verdict = NoVerdict
    /\ pools = Databases
    /\ ManagerIdle
    /\ PoolIdle
    /\ MessagesIdle
    /\ LimitsIdle
    /\ LifeIdle
    /\ request \in TableCalls
    /\ response = <<>>
    /\ catalog \in [tables : SUBSET TableNames, matching : {0, 2}]

CallTool(tool, Handler(_, _)) ==
    /\ response = <<>>
    /\ request.tool = tool
    /\ response' = <<Handler(catalog, request)>>
    /\ UNCHANGED <<validatorVars, managerVars, poolVars, messageVars, limitVars,
                   request, catalog, lifeVars>>

PreviewDataOfTable == CallTool("preview_data", previewData)
DescribeTableOfTable == CallTool("describe_table", describeTable)
RunQueryOnTable == CallTool("run_query", runQuery)
ShowRelationsOfTable == CallTool("show_relations", showRelationsOfTable)

NextTables ==
    \/ PreviewDataOfTable
    \/ DescribeTableOfTable
    \/ RunQueryOnTable
    \/ ShowRelationsOfTable

SpecTables == InitTables /\ [][NextTables]_vars

\* C24: a call of preview_data, describe_table, run_query or show_relations
\* for a table the database does not have ends in the error
\* "Table '<name>' does not exist in database '<database>'".
C24_MissingTableReported ==
    (response # <<>> /\ request.table \notin catalog.tables) =>
        /\ response[1].kind = "error"
        /\ response[1].message =
               TableDoesNotExistMessage(request.table, request.database)


(***************************************************************************)
(* preview_data: the number of rows returned.                              *)
(***************************************************************************)

\* where texts of a preview_data call; <<>> is an absent where
WhereEquals ==
    <<"c"," ","="," ","1">>
WhereLineComment ==
    <<"1","=","1"," ","-","-">>
WhereHashComment ==
    <<"1","=","1"," ","#">>
WhereLimitAndComment ==
    <<"1","=","1"," ","L","I","M","I","T"," ","1","2","0"," ","-","-">>
WhereOwnLimit ==
    <<"1","=","1"," ","L","I","M","I","T"," ","2">>
WhereSemicolon ==
    <<"c"," ","="," ","1",";">>
WhereLimitInLiteral ==
    <<"c"," ","="," ","'","L","I","M","I","T"," ","1","'">>
WhereTexts ==
    {<<>>, WhereEquals, WhereLineComment, WhereHashComment, WhereLimitAndComment,
     WhereOwnLimit, WhereSemicolon, WhereLimitInLiteral}

\* the preview_data calls: table users, all columns or column c, a limit that
\* is absent or an integer, a where text
PreviewCalls ==
    [tool : {"preview_data"}, database : {NameCrm}, table : {TableUsers},
     columns : {<<>>, << <<"c">> >>},
     limit : {UndefinedLimit, Number(0), Number(1), Number(5), Number(PREVIEW_MAX),
              Number(150)},
     where : WhereTexts, query : {<<>>}]

InitPreview ==
    /\ vtext = QEmpty
    /\ verdict = NoVerdict
    /\ pools = Databases
    /\ ManagerIdle
    /\ PoolIdle
    /\ MessagesIdle
    /\ LimitsIdle
    /\ LifeIdle
    /\ request \in PreviewCalls
    /\ response = <<>>
    /\ catalog \in [tables : {{TableUsers}}, matching : {0, 3, 7, 150}]

PreviewData ==
    /\ response = <<>>
    /\ response' = <<previewData(catalog, request)>>
    /\ UNCHANGED <<validatorVars, managerVars, poolVars, messageVars, limitVars,
                   request, catalog, lifeVars>>

NextPreview == PreviewData

SpecPreview == InitPreview /\ [][NextPreview]_vars

\* C25: the output of preview_data never has more rows than
\* enforceRowLimit(limit), which is at most 100, whatever the table, columns,
\* limit and where text of the call.
C25_PreviewRowsWithinLimit ==
    (response # <<>> /\ response[1].kind = "ok") =>
        /\ 2 * Len(response[1].rows) <= enforceRowLimit(request.limit).halves
        /\ enforceRowLimit(request.limit).halves <= 2 * 100


(***************************************************************************)
(* list_tables.                                                            *)
(***************************************************************************)

\* the schemas have up to MaxListed tables, or about QUERY_DEFAULT tables
MaxListed == 60
TableCounts ==
    (0..MaxListed) \cup {QUERY_DEFAULT - 1, QUERY_DEFAULT, QUERY_DEFAULT + 1,
                         QUERY_DEFAULT + 200}

\* the rows of SHOW TABLE STATUS for a schema of n tables and views: every
\* third one is a view, whose Engine is NULL (<<>>)
TableStatus(n) ==
    [i \in 1..n |->
        [Name |-> i, Engine |-> IF i % 3 = 0 THEN <<>> ELSE <<"InnoDB">>,
         Rows |-> i % 5]]

determineTableType(row) == IF row.Engine = <<>> THEN "VIEW" ELSE "BASE TABLE"

\* listTables(connectionManager, input): executeQuery(database,
\* 'SHOW TABLE STATUS') with no limit argument
listTables(schema, input) ==
    LET query == QShowTableStatus
        validation == validate(query)
        limitOfCall == ResolveLimit(Undefined)
        sentText == QueryWithLimit(query, limitOfCall)
        returned == EngineRows(sentText, schema.count)
        result == ShapeResult([i \in 1..Len(returned) |->
                                  TableStatus(schema.count)[returned[i]]],
                              limitOfCall)
    IN  IF ~ValidationPasses(validation) \/ ~EngineAccepts(sentText)
        THEN [kind |-> "error", database |-> input.database, tables |-> <<>>]
        ELSE [kind |-> "ok", database |-> input.database,
              tables |-> [i \in 1..Len(result.rows) |->
                             [name |-> result.rows[i].Name,
                              type |-> determineTableType(result.rows[i]),
                              rowCount |-> result.rows[i].Rows,
                              engine |-> IF result.rows[i].Engine = <<>> THEN "N/A"
                                         ELSE result.rows[i].Engine[1]]]]

InitList ==
    /\ vtext = QEmpty
    /\ verdict = NoVerdict
    /\ pools = Databases
    /\ ManagerIdle
    /\ PoolIdle
    /\ MessagesIdle
    /\ LimitsIdle
    /\ LifeIdle
    /\ request \in [database : Databases]
    /\ response = <<>>
    /\ catalog \in [count : TableCounts]

ListTables ==
    /\ response = <<>>
    /\ response' = <<listTables(catalog, request)>>
    /\ UNCHANGED <<validatorVars, managerVars, poolVars, messageVars, limitVars,
                   request, catalog, lifeVars>>

NextList == ListTables

SpecList == InitList /\ [][NextList]_vars

\* C26: the tables array that listTables returns has exactly one entry for
\* each table or view of the database, however many there are.
C26_ListsAllTables ==
    response # <<>> =>
        /\ response[1].kind = "ok"
        /\ Len(response[1].tables) = catalog.count
        /\ \A i \in 1..catalog.count : response[1].tables[i].name = i


(***************************************************************************)
(* executeQuery: the effective limit.                                      *)
(***************************************************************************)

\* C27: the effective limit of an executeQuery call is the limit the caller
\* passed if that is a positive integer, and otherwise the default 1000; a
\* limit of 0 or below is never the effective limit.
C27_InvalidLimitNeverEffective ==
    sent # <<>> =>
        /\ effectiveLimit >= 1
        /\ effectiveLimit =
               IF call.limit # Undefined /\ call.limit[1] >= 1
               THEN call.limit[1]
               ELSE 1000


(***************************************************************************)
(* The manager over its life: initialize, testConnection, executeQuery and *)
(* close, and the pools mysql.createPool makes for it.  A pool is a record *)
(* of the database it was made for, whether pool.end() was called on it,   *)
(* and how many of its connections are checked out.                        *)
(***************************************************************************)
\* the most initialize calls
MaxInitialize == 2
\* the most connections checked out of all pools together
MaxHeld == 3

DatabaseText(database) == IF database = "crm" THEN NameCrm ELSE NameOperation

\* the configs initialize is called with
CrmConfigs ==
    {[name |-> NameCrm, host |-> HostDb1, port |-> 3306, user |-> UserRoot,
      password |-> p, database |-> SchemaCrmProd] : p \in Passwords}
OperationConfig ==
    [name |-> NameOperation, host |-> HostLocalhost, port |-> 3307, user |-> UserRoot,
     password |-> PasswordS3cret, database |-> NameCrm]

\* mysql.createPool(options): no connection is opened yet
createPool(config) ==
    [database |-> IF config.name = NameCrm THEN "crm" ELSE "operation",
     ended |-> FALSE, held |-> 0]

\* this.pools.get(database): the pool made last for the database, set() having
\* replaced any earlier one
PoolOf(database) ==
    CHOOSE i \in 1..Len(driver) :
        /\ driver[i].database = database
        /\ \A j \in 1..Len(driver) : driver[j].database = database => j <= i

\* how many connections are checked out of each pool
HeldOf(made) == [i \in 1..Len(made) |-> made[i].held]
HeldTotal == LET RECURSIVE Sum(_)
                 Sum(n) == IF n = 0 THEN 0 ELSE driver[n].held + Sum(n - 1)
             IN  Sum(Len(driver))

\* the mutant: the connection testConnection got is not released
AfterGetConnection(pool) == [pool EXCEPT !.held = @ + 1]
\* const connection = await pool.getConnection(); connection.release()
AfterTestConnection(pool) == [pool EXCEPT !.held = (@ + 1) - 1]

\* a manager call that completed: error is <<>> or the message thrown,
\* contacted tells whether the pool was asked for a connection, change is, per
\* pool there was before the call, how many more of its connections are checked
\* out after it
Completed(name, database, error, contacted, made, after) ==
    [name |-> name, database |-> database, error |-> error, contacted |-> contacted,
     change |-> [i \in 1..Len(made) |-> HeldOf(after)[i] - HeldOf(made)[i]]]

\* the messages of the errors pool.getConnection rejects with in these runs
PoolErrors == {MsgAccessDenied, MsgPasswordPair, MsgConnectionUrl}
\* the queries of the executeQuery calls in these runs
PoolQueries == {QSelectAll, QDropTable}

\* the messages and the verdicts of these runs
ConnectionErrorMessages ==
    [config \in CrmConfigs \cup {OperationConfig}, error \in PoolErrors |->
        createConnectionErrorMessage(config, error)]
QueryValidations == [query \in PoolQueries |-> validate(query)]
\* throw new Error(validation.error || 'Invalid query'), outside the try
QueryRefusals ==
    [query \in PoolQueries |-> ErrorText(QueryValidations[query].error)]

InitLife ==
    /\ vtext = QEmpty
    /\ verdict = NoVerdict
    /\ pools = {}
    /\ ManagerIdle
    /\ PoolIdle
    /\ MessagesIdle
    /\ LimitsIdle
    /\ ToolsIdle
    /\ LifeIdle

\* initialize(crmConfig, operationConfig)
InitializePools(crmConfig, operationConfig) ==
    /\ Len(driver) < 2 * MaxInitialize
    /\ configs' = [d \in Databases |-> IF d = "crm" THEN crmConfig ELSE operationConfig]
    /\ driver' = driver \o <<createPool(crmConfig), createPool(operationConfig)>>
    /\ pools' = Databases
    /\ op' = Completed("initialize", "crm", <<>>, FALSE, driver, driver')
    /\ UNCHANGED <<pc, call, tableRows, poolLookedUp, timerArmed, queryInFlight,
                   effectiveLimit, sent, outcome>>
    /\ UNCHANGED <<validatorVars, poolVars, messageVars, limitVars, toolVars>>

\* testConnection(database): the pool gives a connection, which is released
TestConnectionReleases(database) ==
    /\ database \in pools
    /\ driver[PoolOf(database)].held < connectionLimit
    /\ driver' = [driver EXCEPT ![PoolOf(database)] = AfterTestConnection(@)]
    /\ op' = Completed("testConnection", database, <<>>, TRUE, driver, driver')
    /\ UNCHANGED <<managerVars, configs>>
    /\ UNCHANGED <<validatorVars, poolVars, messageVars, limitVars, toolVars>>

\* testConnection(database): pool.getConnection rejects with an error of the
\* given message, or getPool throws
TestConnectionThrows(database, error) ==
    /\ IF database \notin pools
       THEN op' = Completed("testConnection", database,
                            <<PoolNotInitializedMessage(DatabaseText(database))>>,
                            FALSE, driver, driver)
       ELSE op' = Completed("testConnection", database,
                            IF database \in DOMAIN configs
                            THEN <<ConnectionErrorMessages[configs[database], error]>>
                            ELSE <<ConnectionFailedPrefix \o DatabaseText(database)>>,
                            TRUE, driver, driver)
    /\ UNCHANGED <<managerVars, configs, driver>>
    /\ UNCHANGED <<validatorVars, poolVars, messageVars, limitVars, toolVars>>

\* executeQuery(database, query) up to its await: the query is refused, or
\* getPool throws, or pool.execute checks a connection out for the query
ExecuteQueryOnPools(database, query) ==
    /\ LET validation == QueryValidations[query]
       IN  IF ~ValidationPasses(validation)
           THEN /\ op' = Completed("executeQuery", database, <<QueryRefusals[query]>>,
                                   FALSE, driver, driver)
                /\ UNCHANGED driver
           ELSE IF database \notin pools
           THEN /\ op' = Completed("executeQuery", database,
                                   <<PoolNotInitializedMessage(DatabaseText(database))>>,
                                   FALSE, driver, driver)
                /\ UNCHANGED driver
           ELSE /\ driver[PoolOf(database)].held < connectionLimit
                /\ HeldTotal < MaxHeld
                /\ driver' = [driver EXCEPT ![PoolOf(database)].held = @ + 1]
                /\ op' = Completed("executeQuery", database, <<>>, TRUE, driver, driver')
    /\ UNCHANGED <<managerVars, configs>>
    /\ UNCHANGED <<validatorVars, poolVars, messageVars, limitVars, toolVars>>

\* a query in flight on pool i ends and its connection is released
QueryOnPoolEnds(i) ==
    /\ i \in 1..Len(driver)
    /\ driver[i].held > 0
    /\ driver' = [driver EXCEPT ![i].held = @ - 1]
    /\ UNCHANGED <<managerVars, configs, op>>
    /\ UNCHANGED <<validatorVars, poolVars, messageVars, limitVars, toolVars>>

\* close(): pool.end() for every pool of this.pools, then both maps are cleared
ClosePools ==
    /\ driver' = [i \in 1..Len(driver) |->
                     IF \E d \in pools : i = PoolOf(d)
                     THEN [driver[i] EXCEPT !.ended = TRUE]
                     ELSE driver[i]]
    /\ pools' = {}
    /\ configs' = <<>>
    /\ op' = Completed("close", "crm", <<>>, FALSE, driver, driver')
    /\ UNCHANGED <<pc, call, tableRows, poolLookedUp, timerArmed, queryInFlight,
                   effectiveLimit, sent, outcome>>
    /\ UNCHANGED <<validatorVars, poolVars, messageVars, limitVars, toolVars>>

NextLife ==
    \/ \E c \in CrmConfigs : InitializePools(c, OperationConfig)
    \/ \E d \in Databases : TestConnectionReleases(d)
    \/ \E d \in Databases, e \in PoolErrors : TestConnectionThrows(d, e)
    \/ \E d \in Databases, q \in PoolQueries : ExecuteQueryOnPools(d, q)
    \/ \E i \in 1..(2 * MaxInitialize) : QueryOnPoolEnds(i)
    \/ ClosePools

SpecLife == InitLife /\ [][NextLife]_vars


(***************************************************************************)
(* Properties of testConnection, under SpecLife.                           *)
(***************************************************************************)
TestConnectionDone == op # <<>> /\ op.name = "testConnection"

\* the details createConnectionErrorMessage gives for a config
SafeDetailsOf(config) ==
    config.name \o <<"@">> \o config.host \o <<":">> \o NumberToString(config.port)
        \o <<"/">> \o config.database

C30_CloseReleasesAllPools ==
    /\ (op # <<>> /\ op.name = "close")
           => /\ \A i \in 1..Len(driver) : driver[i].ended
              /\ pools = {}
              /\ configs = <<>>
    /\ (op # <<>> /\ op.name \in {"testConnection", "executeQuery"} /\ pools = {})
           => /\ ~op.contacted
              /\ \/ op.error = <<PoolNotInitializedMessage(DatabaseText(op.database))>>
                 \/ /\ op.name = "executeQuery"
                    /\ \E q \in PoolQueries :
                           /\ ~ValidationPasses(QueryValidations[q])
                           /\ op.error = <<QueryRefusals[q]>>


(***************************************************************************)
(* Termination of executeQuery.  The timer of every call runs in the end:  *)
(* setTimeout is called before pool.execute, whether the call then gets a  *)
(* connection or waits in the queue.  Nothing is assumed of the queries:   *)
(* any of them may run for ever.                                           *)
(***************************************************************************)
\* the most executeQuery calls made in these runs, and the most queries
\* that end in them
MaxLiveCalls == 6
MaxEnded == 2

Finished == {c \in CallIds : qstate[c] = "finished"}

NextPoolLive ==
    \/ issued < MaxLiveCalls /\ CallExecuteQuery
    \/ \E c \in 1..MaxLiveCalls :
           Cardinality(Finished) < MaxEnded /\ PoolQueryCompletes(c)
    \/ \E c \in 1..MaxLiveCalls :
           Cardinality(Finished) < MaxEnded /\ PoolQueryFails(c)
    \/ \E c \in 1..MaxLiveCalls : TimerRuns(c)

SpecPoolLive ==
    /\ InitPool
    /\ [][NextPoolLive]_vars
    /\ \A c \in 1..MaxLiveCalls : WF_vars(TimerRuns(c))

\* the caller of call c has its result or its error
HasOutcome(c) == c <= Len(delivered) /\ delivered[c] # <<>>

\* C29: every executeQuery call made on an initialised manager gives its caller
\* a result or an error in the end, provided only that its timer runs in the
\* end; a call that still waits in the pool's queue when it has its outcome,
\* the 5 connections being held by queries that have not ended, has the
\* Timeout error as its outcome.
C29_EveryCallReturns ==
    /\ \A c \in 1..MaxLiveCalls : (c <= issued) ~> HasOutcome(c)
    /\ [](\A c \in CallIds :
              (qstate[c] = "queued" /\ HasOutcome(c)) => delivered[c] = <<TimeoutError>>)

C29_Witness ==
    /\ issued >= 6
    /\ \A c \in 1..5 : qstate[c] = "executing"
    /\ created = connectionLimit
    /\ free = {}
    /\ qstate[6] = "queued"
    /\ delivered[6] = <<TimeoutError>>

=============================================================================
